---- MODULE Spec2Model ----
(***************************************************************************)
(* A model of the VIRTAC record propagation graph: the PV classes of       *)
(* src/src/virtac/pv.py and the graph builder and server operations of     *)
(* src/src/virtac/virtac_server.py.                                        *)
(*                                                                         *)
(* Scheduling.  pv.py runs on cothread: camonitor callbacks, softioc       *)
(* on_update callbacks and the collation task are cothreads, which are     *)
(* dispatched one at a time and run until they yield (cothread.Sleep, or a *)
(* caget of a CaPV).  The constructor of VirtacServer never yields.        *)
(***************************************************************************)
EXTENDS Integers, Sequences, FiniteSets, TLC

VARIABLES
    cfg,            \* the csv files and flags given to VirtacServer.__init__
    pc,             \* where VirtacServer.__init__ is: "core", "feedback", "emit", "mirror", "tune", "collect", "done"
    row,            \* index of the next csv row of the current file
    step,           \* position inside the tune row being processed (0 = between rows)
    err,            \* the exception that ended construction at row `row` of phase pc, "" for none
    objs,           \* every PV object ever constructed, by identity (index)
    pv_dict,        \* VirtacServer._pv_dict: name -> object identity
    readback_pvs,   \* VirtacServer._readback_pvs_dict, as the set of its names
    pv_monitoring,  \* VirtacServer._pv_monitoring
    recs,           \* the softioc records: name -> value
    ext,            \* PVs of other IOCs, reached over channel access: name -> value
    sim,            \* the simulator (pytac lattice, SIM data source): <<item, field>> -> number
    cbq,            \* camonitor callbacks waiting to be dispatched (FIFO)
    procq,          \* softioc on_update callbacks waiting to be dispatched (FIFO)
    coll,           \* the collation task and flags of each CollationPV: object identity -> record
    now,            \* the clock, in ticks of 0.1 s
    hist            \* observations of the run used to state properties (never read by the program)

vars == <<cfg, pc, row, step, err, objs, pv_dict, readback_pvs, pv_monitoring,
          recs, ext, sim, cbq, procq, coll, now, hist>>

----------------------------------------------------------------------------
(* Bounds of the model *)

\* Numbers written by clients, simulator and other IOCs are 0..MaxVal
MaxVal == 1
\* The clock stops advancing at MaxTime ticks
MaxTime == 5
\* At most MaxToggles calls of disable_monitoring and enable_monitoring
MaxToggles == 2
\* At most MaxEvents value changes made by clients, other IOCs and the simulator
MaxEvents == 2

\* The waveform PV of another IOC has WaveLen elements
WaveLen == 2
\* The longest list of names handed to setup_pv_monitoring
MaxNames == 2

Vals == 0..MaxVal

----------------------------------------------------------------------------
(* Values of records: RecordValueType = int | float | numpy array.         *)
(* A value carries its kind, so that a scalar and a one-element array are  *)
(* different values.                                                       *)

Scalar(x) == [k |-> "s", v |-> <<x>>]
Array(s)  == [k |-> "a", v |-> s]
Num(val)  == val.v[1]

\* value += offset (pv.py:307); numpy broadcasts a scalar over an array
AddValue(value, offset) ==
    IF value.k = "s" /\ offset.k = "s" THEN Scalar(Num(value) + Num(offset))
    ELSE IF value.k = "s" THEN Array([i \in 1..Len(offset.v) |-> Num(value) + offset.v[i]])
    ELSE IF offset.k = "s" THEN Array([i \in 1..Len(value.v) |-> value.v[i] + Num(offset)])
    ELSE Array([i \in 1..Len(value.v) |-> value.v[i] + offset.v[i]])

----------------------------------------------------------------------------
(* The simulated lattice handed to the server by atip.utils.loader: one    *)
(* quadrupole (field b1, with a setpoint), two bend magnets sharing one PV *)
(* (field b0, with a setpoint), one BPM (field x, readback only), and the  *)
(* lattice itself as item 0 (field energy, readback only).                 *)

NoName == ""
Lattice == <<
    [type_ |-> "QUAD", fields |-> <<"b1">>, rb |-> "Q1:I",  sp |-> "Q1:SETI"],
    [type_ |-> "BEND", fields |-> <<"b0">>, rb |-> "BB:I",  sp |-> "BB:SETI"],
    [type_ |-> "BEND", fields |-> <<"b0">>, rb |-> "BB:I",  sp |-> "BB:SETI"],
    [type_ |-> "BPM",  fields |-> <<"x">>,  rb |-> "BPM:X", sp |-> NoName] >>
LatticeItem == 0
LatticeFields == <<"energy">>
LatticePvName == "LAT:E"

SimKeys == {<<1, "b1">>, <<2, "b0">>, <<3, "b0">>, <<4, "x">>, <<LatticeItem, "energy">>}

\* Names of PVs served by other IOCs; the one named WaveName is a waveform of
\* WaveLen elements
WaveName == "EXT:W"
ExtNames == {"TFB:I", "EXT:A", "EXT:B", WaveName}

----------------------------------------------------------------------------
(* PV objects.  Every object has the attributes of all the classes; an     *)
(* attribute a class does not have keeps its default.                      *)

NoRecord == ""      \* self._record is None
NoObj == 0          \* a None object reference
NoIndex == -1       \* callback called without an index

RecordData(record_type, initial_value) ==
    [record_type |-> record_type, initial_value |-> initial_value]
NoRecordData == [record_type |-> "None", initial_value |-> Scalar(0)]

MonitorKinds == {"MonitorPV", "RefreshPV", "InversionPV", "SummationPV", "CollationPV"}

\* PV.__init__ before create_softioc_record
NewObj(kind, name) ==
    [kind |-> kind, name |-> name, record |-> NoRecord,
     pytac_items |-> <<>>, pytac_field |-> "",
     in_pv |-> NoObj, offset_record |-> NoObj,
     monitor_data |-> <<>>, camonitor_handles |-> <<>>,
     record_to_refresh |-> NoObj, srcs |-> <<>>]

(* The server under construction, threaded through the constructors:       *)
(* objs, pv_dict, recs, cbq, coll and the exception raised, if any.        *)
NoErr == ""
Raise(S, e) == [S EXCEPT !.err = e]

\* builder.aIn / aOut / WaveformOut / mbbIn: the record store refuses a name it
\* already holds
builder_record(S, name, initial_value) ==
    IF name \in DOMAIN S.recs THEN Raise(S, "DuplicateName")
    ELSE [S EXCEPT !.recs = name :> initial_value @@ S.recs]

RecordTypes == {"ai", "ao", "wfm", "mbbi"}

create_softioc_record(S, name, record_data) ==
    IF record_data.record_type \in RecordTypes
    THEN builder_record(S, name, record_data.initial_value)
    ELSE Raise(S, "ValueError:record_type")

\* PV.__init__ that goes on when the record could not be made
PV_init_ignore(S, kind, name, record_data) ==
    LET o == [NewObj(kind, name) EXCEPT
                 !.record = IF record_data = NoRecordData THEN NoRecord ELSE name]
    IN  [S EXCEPT !.objs = Append(S.objs, o),
                  !.recs = IF record_data = NoRecordData \/ name \in DOMAIN S.recs THEN @
                           ELSE name :> record_data.initial_value @@ @]

\* PV.__init__: the object exists once the constructor returns without raising
PV_init(S, kind, name, record_data) ==
    LET S1 == IF record_data = NoRecordData THEN S
              ELSE create_softioc_record(S, name, record_data)
        o  == [NewObj(kind, name) EXCEPT
                 !.record = IF record_data = NoRecordData THEN NoRecord ELSE name]
    IN  IF S1.err # NoErr THEN S1 ELSE [S1 EXCEPT !.objs = Append(S1.objs, o)]

\* The identity of the object the last constructor call returned
Last(S) == Len(S.objs)

append_pytac_item(S, id, item) ==
    [S EXCEPT !.objs[id].pytac_items = Append(@, item)]

set_pytac_field(S, id, field) ==
    [S EXCEPT !.objs[id].pytac_field = field]

get_pytac_data(o) == <<o.pytac_items, o.pytac_field>>

\* SetpointPV.__init__ and OffsetPV.__init__ (offset_pv defaults to None)
SetpointPV_init(S, kind, name, record_data, in_pv) ==
    LET S1 == PV_init(S, kind, name, record_data)
    IN  IF S1.err # NoErr THEN S1 ELSE [S1 EXCEPT !.objs[Last(S1)].in_pv = in_pv]

attach_offset_record(S, id, offset_pv) ==
    [S EXCEPT !.objs[id].offset_record = offset_pv]

\* self._pv_dict[name] = pv
Register(S, name, id) == [S EXCEPT !.pv_dict = name :> id @@ S.pv_dict]

----------------------------------------------------------------------------
(* Channel access, as cothread.catools provides it.                        *)

\* caget(name): a record of this IOC when it has one, else a PV of another IOC
PvValue(S, name) ==
    IF name \in DOMAIN S.recs THEN S.recs[name]
    ELSE IF name \in DOMAIN S.ext THEN S.ext[name]
    ELSE Scalar(0)

\* A camonitor subscription (a _Subscription): the PV, the callback (a bound
\* method of the subscribing object) and the index the callback is given
Subscription(pv_name, callback, index) ==
    [pv |-> pv_name, cb |-> callback, index |-> index]

\* One callback waiting in the dispatcher: callback(value, index) of object id
Call(id, h, value) == [obj |-> id, cb |-> h.cb, value |-> value, index |-> h.index]

RECURSIVE NewHandles(_, _, _, _)
\* The update events of a newly opened subscription: channel access sends the
\* current value once when a subscription is made
NewHandles(S, id, hs, i) ==
    IF i > Len(hs) THEN S
    ELSE NewHandles([S EXCEPT !.cbq = Append(@, Call(id, hs[i], PvValue(S, hs[i].pv)))],
                    id, hs, i + 1)

\* camonitor(pv_name, callback): one subscription, callback(value)
\* camonitor([pv_names], callback): one per name, callback(value, index)
camonitor(S, id, hs) ==
    NewHandles([S EXCEPT !.objs[id].camonitor_handles = @ \o hs], id, hs, 1)

RECURSIVE PostEvents(_, _, _, _, _)
\* The update events channel access sends when PV `name` takes a new value: one
\* callback per open subscription to `name`, of every object that holds one
PostEvents(S, name, value, id, i) ==
    IF id > Len(S.objs) THEN S
    ELSE IF i > Len(S.objs[id].camonitor_handles) THEN PostEvents(S, name, value, id + 1, 1)
    ELSE LET h == S.objs[id].camonitor_handles[i]
         IN  PostEvents(IF h.pv = name
                        THEN [S EXCEPT !.cbq = Append(@, Call(id, h, value))]
                        ELSE S,
                        name, value, id, i + 1)

\* RecordWrapper.set(value): store, and post monitors when the value changed
record_set(S, name, value) ==
    LET S1 == [S EXCEPT !.recs[name] = value]
    IN  IF S.recs[name] = value THEN S1 ELSE PostEvents(S1, name, value, 1, 1)

\* The softioc record `name` was made by the first object of that name
Creator(S, name) == CHOOSE id \in 1..Len(S.objs) :
    /\ S.objs[id].name = name
    /\ \A j \in 1..(id - 1) : S.objs[j].name # name

\* RecordWrapper.set_field("PROC", 1): the record processes.  The aOut of a
\* SetpointPV or OffsetPV is made with always_update, so softioc queues its
\* on_update(value, name); other records have no on_update that acts.
\* (trig is an observation: the number of the delta notification whose handler
\* made the call, 0 for none.)
set_field_PROC(S, name) ==
    IF S.objs[Creator(S, name)].kind \in {"SetpointPV", "OffsetPV"}
    THEN [S EXCEPT !.procq = Append(@, [name |-> name, value |-> S.recs[name],
                                        trig |-> S.tag])]
    ELSE S

----------------------------------------------------------------------------
(* MonitorPV *)

\* pv_name in self._monitor_data (pv.py:386): a str compared with the
\* (name, callback) tuples of the list is never equal to one
PyEq(pv_name, entry) == FALSE
already_monitored(pv_name, monitor_data) ==
    \E i \in 1..Len(monitor_data) : PyEq(pv_name, monitor_data[i])

\* list.remove(x): drop the first occurrence
RECURSIVE ListRemove(_, _)
ListRemove(l, x) ==
    IF l = <<>> THEN <<>>
    ELSE IF Head(l) = x THEN Tail(l)
    ELSE <<Head(l)>> \o ListRemove(Tail(l), x)

\* A csv cell that is no str cannot occur; the marker stands for such a name
NotAString == "<not a str>"

\* The loop of pv.py:383-390 over pv_names, which it edits while iterating:
\* returns the names left, or <<NotAString>> for the TypeError
RECURSIVE check_pv_names(_, _, _)
check_pv_names(pv_names, monitor_data, i) ==
    IF i > Len(pv_names) THEN pv_names
    ELSE IF pv_names[i] = NotAString THEN <<NotAString>>
    ELSE IF already_monitored(pv_names[i], monitor_data)
         THEN check_pv_names(ListRemove(pv_names, pv_names[i]), monitor_data, i + 1)
    ELSE check_pv_names(pv_names, monitor_data, i + 1)

_setup_pv_monitoring_group(S, id, pv_names, callback) ==
    LET md == [i \in 1..Len(pv_names) |-> <<pv_names[i], callback>>]
        hs == [i \in 1..Len(pv_names) |-> Subscription(pv_names[i], callback, i - 1)]
    IN  camonitor([S EXCEPT !.objs[id].monitor_data = @ \o md], id, hs)

Min(a, b) == IF a < b THEN a ELSE b

\* zip(pv_names, callbacks, strict=True) raises ValueError once the shorter list
\* is exhausted, after the pairs before it were handled
RECURSIVE _setup_pv_monitoring_individual(_, _, _, _, _)
_setup_pv_monitoring_individual(S, id, pv_names, callbacks, i) ==
    IF i > Min(Len(pv_names), Len(callbacks))
    THEN IF Len(pv_names) = Len(callbacks) THEN S ELSE Raise(S, "ValueError:zip")
    ELSE _setup_pv_monitoring_individual(
             camonitor([S EXCEPT !.objs[id].monitor_data = Append(@, <<pv_names[i], callbacks[i]>>)],
                       id, <<Subscription(pv_names[i], callbacks[i], NoIndex)>>),
             id, pv_names, callbacks, i + 1)

DefaultCallbacks == <<>>     \* callbacks is None
setup_pv_monitoring(S, id, pv_names_in, callbacks_in) ==
    LET callbacks == IF callbacks_in = DefaultCallbacks THEN <<"set">> ELSE callbacks_in
        pv_names  == check_pv_names(pv_names_in, S.objs[id].monitor_data, 1)
    IN  IF pv_names = <<NotAString>> THEN Raise(S, "TypeError:pv_name")
        ELSE IF Len(callbacks) = 1
             THEN _setup_pv_monitoring_group(S, id, pv_names, callbacks[1])
             ELSE _setup_pv_monitoring_individual(S, id, pv_names, callbacks, 1)

\* MonitorPV.__init__
MonitorPV_init(S, kind, name, record_data, monitored_pv_names, callbacks) ==
    LET S1 == PV_init(S, kind, name, record_data)
    IN  IF S1.err # NoErr THEN S1
        ELSE setup_pv_monitoring(S1, Last(S1), monitored_pv_names, callbacks)

\* A toggle_monitoring that spawns the polling loop of a collation again
\* when it enables
toggle_monitoring_respawn(S, id, enable) ==
    IF enable
    THEN LET md == S.objs[id].monitor_data
             pv_names      == [i \in 1..Len(md) |-> md[i][1]]
             callback_list == [i \in 1..Len(md) |-> md[i][2]]
             S1 == setup_pv_monitoring(S, id, pv_names, callback_list)
         IN  IF id \in DOMAIN S1.coll THEN [S1 EXCEPT !.coll[id].tasks = @ + 1] ELSE S1
    ELSE [S EXCEPT !.objs[id].camonitor_handles = <<>>,
                   !.cbq = SelectSeq(@, LAMBDA c : c.obj # id)]

toggle_monitoring(S, id, enable) ==
    IF enable
    THEN LET md == S.objs[id].monitor_data
             pv_names      == [i \in 1..Len(md) |-> md[i][1]]
             callback_list == [i \in 1..Len(md) |-> md[i][2]]
         IN  setup_pv_monitoring(S, id, pv_names, callback_list)
    ELSE \* handle.close(): a closed subscription makes no further callback, not
         \* even one already queued for execution (cothread.catools)
         [S EXCEPT !.objs[id].camonitor_handles = <<>>,
                   !.cbq = SelectSeq(@, LAMBDA c : c.obj # id)]

----------------------------------------------------------------------------
(* The classes derived from MonitorPV.  A source (an element of            *)
(* _invert_pvs, _summate_pvs or _collate_pvs) is a PV object of this       *)
(* server, or a CaPV holding only a name.                                  *)

OwnSource(id, name) == [ca |-> FALSE, id |-> id, name |-> name]
CaPV(name)          == [ca |-> TRUE, id |-> NoObj, name |-> name]

SourceNames(input_records) == [i \in 1..Len(input_records) |-> input_records[i].name]

\* InversionPV.__init__ / SummationPV.__init__: super().__init__ then the list
DerivedPV_init(S, kind, name, record_data, input_records, callback) ==
    LET S1 == MonitorPV_init(S, kind, name, record_data, SourceNames(input_records),
                             <<callback>>)
    IN  IF S1.err # NoErr THEN S1
        ELSE [S1 EXCEPT !.objs[Last(S1)].srcs = input_records]

\* 0.2 s, in ticks of 0.1 s
minimum_time_between_updates == 2

\* CollationPV.__init__; cothread.Spawn starts _periodic_update at its loop head
CollationPV_init(S, name, record_data, collate_pvs) ==
    LET S1 == DerivedPV_init(S, "CollationPV", name, record_data, collate_pvs,
                             "_set_update_required")
    IN  IF S1.err # NoErr THEN S1
        ELSE [S1 EXCEPT !.coll = Last(S1) :>
                  [last_update_time |-> now, update_required |-> FALSE,
                   at |-> "loop", wake |-> 0, buf |-> <<>>, tasks |-> 1] @@ @]

\* RefreshPV.__init__, line 479: super().__init__(name, None, [monitored], [self.refresh])
RefreshPV_init_super(S, name, monitored_pv_name) ==
    MonitorPV_init(S, "RefreshPV", name, NoRecordData, <<monitored_pv_name>>, <<"refresh">>)

\* A RefreshPV.__init__ that leaves the record with the node it was given
RefreshPV_init_rest_no_record(S, id, record_to_refresh, pv_to_cannibalise) ==
    [S EXCEPT !.objs[id].record_to_refresh = record_to_refresh,
              !.objs[id].pytac_items = get_pytac_data(S.objs[pv_to_cannibalise])[1],
              !.objs[id].pytac_field = get_pytac_data(S.objs[pv_to_cannibalise])[2]]

\* RefreshPV.__init__, lines 480-482
RefreshPV_init_rest(S, id, record_to_refresh, pv_to_cannibalise) ==
    [S EXCEPT !.objs[id].record_to_refresh = record_to_refresh,
              !.objs[id].record = S.objs[pv_to_cannibalise].record,
              !.objs[id].pytac_items = get_pytac_data(S.objs[pv_to_cannibalise])[1],
              !.objs[id].pytac_field = get_pytac_data(S.objs[pv_to_cannibalise])[2]]

----------------------------------------------------------------------------
(* Cells of the csv files.  The text of a value cell is a sequence of      *)
(* characters.                                                             *)

Digits == <<"0", "1", "2", "3", "4", "5", "6", "7", "8", "9">>
IsDigit(c) == \E d \in 1..10 : Digits[d] = c
DigitValue(c) == (CHOOSE d \in 1..10 : Digits[d] = c) - 1

RECURSIVE Decimal(_)
Decimal(t) == IF t = <<>> THEN 0 ELSE 10 * Decimal(SubSeq(t, 1, Len(t) - 1)) + DigitValue(t[Len(t)])

RECURSIVE lstrip(_)
lstrip(t) == IF t # <<>> /\ Head(t) = " " THEN lstrip(Tail(t)) ELSE t
RECURSIVE rstrip(_)
rstrip(t) == IF t # <<>> /\ t[Len(t)] = " " THEN rstrip(SubSeq(t, 1, Len(t) - 1)) ELSE t

IsNumber(t) == t # <<>> /\ \A i \in 1..Len(t) : IsDigit(t[i])

\* float(text): surrounding blanks are ignored; anything but a number raises
\* ValueError
float(text) ==
    LET t == rstrip(lstrip(text))
    IN  IF IsNumber(t) THEN [err |-> NoErr, val |-> Scalar(Decimal(t))]
        ELSE [err |-> "ValueError", val |-> Scalar(0)]

\* The first blank-separated word of t, and what follows it
RECURSIVE Word(_)
Word(t) == IF t = <<>> \/ Head(t) = " " THEN <<>> ELSE <<Head(t)>> \o Word(Tail(t))

\* numpy.fromstring(text, sep=" "): the numbers up to the first word that is
\* not one (numpy only warns about the rest)
RECURSIVE fromstring(_)
fromstring(text) ==
    LET t == lstrip(text)
        w == Word(t)
    IN  IF t = <<>> \/ ~IsNumber(w) THEN <<>>
        ELSE <<Decimal(w)>> \o fromstring(SubSeq(t, Len(w) + 1, Len(t)))

\* The try block of virtac_server.py:347-358 and 401-412
parse_value(value) ==
    IF value = <<>> THEN [err |-> "IndexError", val |-> Scalar(0)]
    ELSE IF value[1] = "[" /\ value[Len(value)] = "]"
         THEN [err |-> NoErr, val |-> Array(fromstring(SubSeq(value, 2, Len(value) - 1)))]
    ELSE IF float(value).err # NoErr
         THEN [err |-> "ValueError:Invalid initial value", val |-> Scalar(0)]
    ELSE float(value)

----------------------------------------------------------------------------
(* VirtacServer: the graph builder *)

\* The program state the constructors and callbacks work on (stored and tag
\* are observations: whether a collation stored, and the number of the delta
\* notification being handled)
Cur == [objs |-> objs, pv_dict |-> pv_dict, recs |-> recs, ext |-> ext, sim |-> sim,
        cbq |-> cbq, procq |-> procq, coll |-> coll, err |-> err,
        stored |-> FALSE, tag |-> 0]

Install(S) ==
    /\ objs' = S.objs
    /\ pv_dict' = S.pv_dict
    /\ recs' = S.recs
    /\ ext' = S.ext
    /\ sim' = S.sim
    /\ cbq' = S.cbq
    /\ procq' = S.procq
    /\ coll' = S.coll
    /\ err' = S.err

\* item.get_value(field, units=pytac.ENG, data_source=pytac.SIM)
get_value(S, item, field) == Scalar(S.sim[<<item, field>>])

\* One field of one element with an OffsetPV for every b1 setpoint, tune
\* feedback disabled or not
create_field_pvs_always_offset(B, index, field) ==
    LET S       == B.S
        element == Lattice[index]
        value   == get_value(S, index, field)
        readback_only_pv == element.sp = NoName
        S1 == PV_init(S, IF readback_only_pv THEN "ReadbackPV" ELSE "PV",
                      element.rb, RecordData("ai", value))
        read_pv == Last(S1)
        S2 == Register(set_pytac_field(append_pytac_item(S1, read_pv, index), read_pv, field),
                       element.rb, read_pv)
        S3 == SetpointPV_init(S2, IF field = "b1" THEN "OffsetPV" ELSE "SetpointPV",
                              element.sp, RecordData("ao", value), read_pv)
        S4 == Register(S3, element.sp, Last(S3))
    IN  IF S1.err # NoErr THEN [B EXCEPT !.S = S1]
        ELSE IF readback_only_pv THEN [B EXCEPT !.S = S2]
        ELSE IF S3.err # NoErr THEN [B EXCEPT !.S = S3]
        ELSE [S |-> S4,
              bend_in_record |-> IF element.type_ = "BEND" /\ B.bend_in_record = NoObj
                                 THEN read_pv ELSE B.bend_in_record]

\* One field of one element, virtac_server.py:190-251.  B is the server
\* with the loop's bend_in_record.
create_field_pvs(B, index, field) ==
    LET S       == B.S
        element == Lattice[index]
        value   == get_value(S, index, field)
        readback_only_pv == element.sp = NoName
        S1 == PV_init(S, IF readback_only_pv THEN "ReadbackPV" ELSE "PV",
                      element.rb, RecordData("ai", value))
        read_pv == Last(S1)
        S2 == Register(set_pytac_field(append_pytac_item(S1, read_pv, index), read_pv, field),
                       element.rb, read_pv)
        S3 == SetpointPV_init(S2,
                  IF ~cfg.disable_tunefb /\ field = "b1" THEN "OffsetPV" ELSE "SetpointPV",
                  element.sp, RecordData("ao", value), read_pv)
        S4 == Register(S3, element.sp, Last(S3))
    IN  IF S1.err # NoErr THEN [B EXCEPT !.S = S1]
        ELSE IF readback_only_pv THEN [B EXCEPT !.S = S2]
        ELSE IF S3.err # NoErr THEN [B EXCEPT !.S = S3]
        ELSE [S |-> S4,
              bend_in_record |-> IF element.type_ = "BEND" /\ B.bend_in_record = NoObj
                                 THEN read_pv ELSE B.bend_in_record]

RECURSIVE create_fields(_, _, _)
create_fields(B, index, f) ==
    IF f > Len(Lattice[index].fields) \/ B.S.err # NoErr THEN B
    ELSE create_fields(create_field_pvs(B, index, Lattice[index].fields[f]), index, f + 1)

RECURSIVE create_elements(_, _)
create_elements(B, index) ==
    IF index > Len(Lattice) \/ B.S.err # NoErr THEN B
    ELSE IF Lattice[index].type_ = "BEND" /\ B.bend_in_record # NoObj
         THEN create_elements([B EXCEPT !.S = append_pytac_item(B.S, B.bend_in_record, index)],
                              index + 1)
    ELSE create_elements(create_fields(B, index, 1), index + 1)

_create_element_pvs(S) == create_elements([S |-> S, bend_in_record |-> NoObj], 1).S

RECURSIVE create_lattice_fields(_, _)
create_lattice_fields(S, f) ==
    IF f > Len(LatticeFields) \/ S.err # NoErr THEN S
    ELSE LET S1 == PV_init(S, "ReadbackPV", LatticePvName,
                           RecordData("ai", get_value(S, LatticeItem, LatticeFields[f])))
             in_pv == Last(S1)
         IN  IF S1.err # NoErr THEN S1
             ELSE create_lattice_fields(
                      Register(set_pytac_field(append_pytac_item(S1, in_pv, LatticeItem),
                                               in_pv, LatticeFields[f]),
                               LatticePvName, in_pv),
                      f + 1)

_create_lattice_pvs(S) == create_lattice_fields(S, 1)

_create_core_pvs(S) == _create_lattice_pvs(_create_element_pvs(S))

\* One row of the feedback csv, virtac_server.py:344-364.  lattice[index - 1]
\* is element number index (item 0, the lattice itself, for index 0 is given
\* by Python's lattice[-1] as the last element).
create_feedback_row(S, line) ==
    LET parsed == parse_value(line.value)
        S1 == PV_init(S, "PV", line.pv, RecordData(line.record_type, parsed.val))
        pv == Last(S1)
        item == IF line.index = 0 THEN Len(Lattice) ELSE line.index
    IN  IF parsed.err # NoErr THEN Raise(S, parsed.err)
        ELSE IF S1.err # NoErr THEN S1
        ELSE Register(append_pytac_item(set_pytac_field(S1, pv, line.field), pv, item),
                      line.pv, pv)

\* The emittance status record made after the feedback rows
EmitStatusName == "SR-DI-EMIT-01:STATUS"
create_emit_status(S) ==
    LET S1 == PV_init(S, "PV", EmitStatusName, RecordData("mbbi", Scalar(0)))
    IN  IF S1.err # NoErr THEN S1 ELSE Register(S1, EmitStatusName, Last(S1))

\* The lookup that takes every input from channel access
input_record_always_ca(S, pv) == CaPV(pv)

\* virtac_server.py:392-399
input_record(S, pv) ==
    IF pv \in DOMAIN S.pv_dict THEN OwnSource(S.pv_dict[pv], S.objs[S.pv_dict[pv]].name)
    ELSE CaPV(pv)

\* virtac_server.py:420-435: the constructor for the row's mirror type
create_output_pv(S, line, record_data, input_records) ==
    IF line.mirror_type = "basic"
    THEN MonitorPV_init(S, "MonitorPV", line.out_pv, record_data,
                        SourceNames(input_records), DefaultCallbacks)
    ELSE IF line.mirror_type = "inverse"
    THEN DerivedPV_init(S, "InversionPV", line.out_pv, record_data, input_records, "invert")
    ELSE IF line.mirror_type = "summate"
    THEN DerivedPV_init(S, "SummationPV", line.out_pv, record_data, input_records, "summate")
    ELSE IF line.mirror_type = "collate"
    THEN CollationPV_init(S, line.out_pv, record_data, input_records)
    ELSE Raise(S, "KeyError:mirror type")

\* A mirror row made whatever the number of its inputs
create_mirror_row_any_count(S, line) ==
    LET input_pv_names == line.in_pv
        input_records == [i \in 1..Len(input_pv_names) |-> input_record(S, input_pv_names[i])]
        parsed == parse_value(line.value)
        S1 == create_output_pv(S, line, RecordData(line.output_type, parsed.val), input_records)
    IN  IF parsed.err # NoErr THEN Raise(S, parsed.err)
        ELSE IF S1.err # NoErr THEN S1
        ELSE Register(S1, line.out_pv, Last(S1))

\* One row of the mirror csv, virtac_server.py:377-437
create_mirror_row(S, line) ==
    LET input_pv_names == line.in_pv
        input_records == [i \in 1..Len(input_pv_names) |-> input_record(S, input_pv_names[i])]
        parsed == parse_value(line.value)
        S1 == create_output_pv(S, line, RecordData(line.output_type, parsed.val), input_records)
    IN  IF Len(input_pv_names) > 1 /\ line.mirror_type = "basic" THEN Raise(S, "IndexError")
        ELSE IF Len(input_pv_names) < 2 /\ line.mirror_type \in {"collate", "summate"}
             THEN Raise(S, "IndexError")
        ELSE IF parsed.err # NoErr THEN Raise(S, parsed.err)
        ELSE IF S1.err # NoErr THEN S1
        ELSE Register(S1, line.out_pv, Last(S1))

\* The lookups of a tune row without the assertion
check_tune_row_no_assert(S, line) ==
    IF line.set_pv \notin DOMAIN S.pv_dict THEN Raise(S, "KeyError:set_pv")
    ELSE IF line.offset_pv \notin DOMAIN S.pv_dict THEN Raise(S, "KeyError:offset_pv")
    ELSE S

\* virtac_server.py:460-465: the lookups and the assertion of a tune row
check_tune_row(S, line) ==
    IF line.set_pv \notin DOMAIN S.pv_dict THEN Raise(S, "KeyError:set_pv")
    ELSE IF S.objs[S.pv_dict[line.set_pv]].kind # "OffsetPV" THEN Raise(S, "AssertionError")
    ELSE IF line.offset_pv \notin DOMAIN S.pv_dict THEN Raise(S, "KeyError:offset_pv")
    ELSE S

----------------------------------------------------------------------------
(* VirtacServer.__init__, one csv row at a time *)

RowPhases == {"feedback", "mirror", "tune"}

PhaseLen(p) ==
    IF p = "feedback" THEN Len(cfg.feedback)
    ELSE IF p = "mirror" THEN Len(cfg.mirror)
    ELSE IF p = "tune" THEN (IF cfg.disable_tunefb THEN 0 ELSE Len(cfg.tune))
    ELSE 0

NextPhase(p) ==
    IF p = "core" THEN "feedback"
    ELSE IF p = "feedback" THEN "emit"
    ELSE IF p = "emit" THEN "mirror"
    ELSE IF p = "mirror" THEN "tune"
    ELSE IF p = "tune" THEN "collect"
    ELSE "done"

\* The phase the constructor is in once phase p has no row left
RECURSIVE Enter(_)
Enter(p) == IF p \in RowPhases /\ PhaseLen(p) = 0 THEN Enter(NextPhase(p)) ELSE p

\* After a step of phase pc that took the server to S: on to the next row or
\* phase, or out of the constructor with the exception
Advance(S, row_done, last_row) ==
    /\ Install(S)
    /\ IF S.err # NoErr THEN pc' = pc /\ row' = row
       ELSE IF row_done /\ last_row THEN pc' = Enter(NextPhase(pc)) /\ row' = 1
       ELSE IF row_done THEN pc' = pc /\ row' = row + 1
       ELSE pc' = pc /\ row' = row

BuildFrame == UNCHANGED <<cfg, step, readback_pvs, pv_monitoring, now, hist>>

CreateCorePvs ==
    /\ pc = "core" /\ err = NoErr
    /\ Advance(_create_core_pvs(Cur), TRUE, TRUE)
    /\ BuildFrame

FeedbackRow ==
    /\ pc = "feedback" /\ err = NoErr
    /\ Advance(create_feedback_row(Cur, cfg.feedback[row]), TRUE, row = Len(cfg.feedback))
    /\ BuildFrame

EmitStatus ==
    /\ pc = "emit" /\ err = NoErr
    /\ Advance(create_emit_status(Cur), TRUE, TRUE)
    /\ BuildFrame

MirrorRow ==
    /\ pc = "mirror" /\ err = NoErr
    /\ Advance(create_mirror_row(Cur, cfg.mirror[row]), TRUE, row = Len(cfg.mirror))
    /\ BuildFrame

\* A tune row whose offset record is never attached to the setpoint
tune_row_step_no_attach(S, line, st) ==
    LET set_record == S.pv_dict[line.set_pv]
        old_offset_record == S.pv_dict[line.offset_pv]
        new_offset_record == Last(S)
    IN  IF st = 0
        THEN IF check_tune_row(S, line).err # NoErr THEN check_tune_row(S, line)
             ELSE RefreshPV_init_super(S, line.offset_pv, line.delta_pv)
        ELSE IF st = 1
        THEN RefreshPV_init_rest(S, new_offset_record, set_record, old_offset_record)
        ELSE IF st = 2
        THEN S
        ELSE Register(S, line.offset_pv, new_offset_record)

\* A tune row, virtac_server.py:459-476, in the four steps that a delta
\* notification could arrive between:
\*   0: the lookups, then RefreshPV.__init__ up to the end of super().__init__
\*   1: the rest of RefreshPV.__init__
\*   2: set_record.attach_offset_record(new_offset_record)
\*   3: self._pv_dict[line["offset_pv"]] = new_offset_record
tune_row_step(S, line, st) ==
    LET set_record == S.pv_dict[line.set_pv]
        old_offset_record == S.pv_dict[line.offset_pv]
        new_offset_record == Last(S)
    IN  IF st = 0
        THEN IF check_tune_row(S, line).err # NoErr THEN check_tune_row(S, line)
             ELSE RefreshPV_init_super(S, line.offset_pv, line.delta_pv)
        ELSE IF st = 1
        THEN RefreshPV_init_rest(S, new_offset_record, set_record, old_offset_record)
        ELSE IF st = 2
        THEN attach_offset_record(S, set_record, new_offset_record)
        ELSE Register(S, line.offset_pv, new_offset_record)

TuneRow ==
    /\ pc = "tune" /\ err = NoErr
    /\ Advance(tune_row_step(Cur, cfg.tune[row], step), step = 3, row = Len(cfg.tune))
    /\ step' = IF step = 3 \/ err' # NoErr THEN 0 ELSE step + 1
    /\ UNCHANGED <<cfg, readback_pvs, pv_monitoring, now, hist>>

\* virtac_server.py:100-103
Collect ==
    /\ pc = "collect" /\ err = NoErr
    /\ readback_pvs' = {name \in DOMAIN pv_dict : objs[pv_dict[name]].kind = "ReadbackPV"}
    /\ pc' = "done"
    /\ UNCHANGED <<cfg, row, step, err, objs, pv_dict, pv_monitoring, recs, ext, sim,
                   cbq, procq, coll, now, hist>>

----------------------------------------------------------------------------
(* Callbacks.  The constructor does not yield, so the dispatchers run only *)
(* once it has returned; a constructor that raised ends the program, and   *)
(* the server object it was building is never handed to anyone.            *)

Running == pc = "done"

\* PV.get() / CaPV.get() of a source
source_get(S, src) ==
    IF src.ca THEN PvValue(S, src.name) ELSE S.recs[S.objs[src.id].record]

Truthy(x) == x # 0
\* numpy.asarray(numpy.invert(numpy.asarray(value, dtype=bool)), dtype=int)
invert_array(v) == [i \in 1..Len(v) |-> IF Truthy(v[i]) THEN 0 ELSE 1]

RECURSIVE SumSeq(_)
SumSeq(v) == IF v = <<>> THEN 0 ELSE Head(v) + SumSeq(Tail(v))

\* MonitorPV.set that takes the index for a position in an array
MonitorPV_set_at_index(S, id, value, index) ==
    record_set(S, S.objs[id].record,
               IF index = NoIndex THEN value
               ELSE Array([i \in 1..(index + 1) |-> Num(value)]))

\* MonitorPV.set
MonitorPV_set(S, id, value, index) == record_set(S, S.objs[id].record, value)

\* RefreshPV.refresh that forces the reprocess and leaves the delta unstored
refresh_without_store(S, id, value, index) ==
    LET o == S.objs[id]
    IN  IF o.record = NoRecord \/ o.record_to_refresh = NoObj THEN Raise(S, "AttributeError")
        ELSE set_field_PROC(S, S.objs[o.record_to_refresh].record)

\* RefreshPV.refresh; an attribute that is still None raises AttributeError
refresh(S, id, value, index) ==
    LET o == S.objs[id]
    IN  IF o.record = NoRecord THEN Raise(S, "AttributeError")
        ELSE IF o.record_to_refresh = NoObj
             THEN Raise(record_set(S, o.record, value), "AttributeError")
        ELSE set_field_PROC(record_set(S, o.record, value),
                            S.objs[o.record_to_refresh].record)

\* InversionPV.invert that reads its sources whatever their number
invert_always_read(S, id, value, index) ==
    LET o == S.objs[id]
        flags == [i \in 1..Len(o.srcs) |-> Num(source_get(S, o.srcs[i]))]
    IN  record_set(S, o.record, Array(invert_array(flags)))

\* InversionPV.invert that inverts the notified value whatever the number of
\* its sources
invert_notified(S, id, value, index) ==
    LET o == S.objs[id]
    IN  record_set(S, o.record, [value EXCEPT !.v = invert_array(value.v)])

\* InversionPV.invert
invert(S, id, value, index) ==
    LET o == S.objs[id]
        flags == [i \in 1..Len(o.srcs) |-> Num(source_get(S, o.srcs[i]))]
    IN  IF Len(o.srcs) = 1
        THEN record_set(S, o.record, [value EXCEPT !.v = invert_array(value.v)])
        ELSE IF Len(o.srcs) > 1
        THEN record_set(S, o.record, Array(invert_array(flags)))
        ELSE Raise(S, "Exception")

\* SummationPV.summate that adds the notified value to the record
summate_notified(S, id, value, index) ==
    LET o == S.objs[id]
    IN  record_set(S, o.record, AddValue(S.recs[o.record], value))

\* SummationPV.summate
summate(S, id, value, index) ==
    LET o == S.objs[id]
    IN  record_set(S, o.record,
                   Scalar(SumSeq([i \in 1..Len(o.srcs) |-> Num(source_get(S, o.srcs[i]))])))

\* CollationPV._set_update_required that leaves the flag alone
_set_update_required_ignored(S, id, value, index) == S

\* CollationPV._set_update_required that collates at once
_set_update_required_and_collate(S, id, value, index) ==
    LET o == S.objs[id]
    IN  record_set([S EXCEPT !.coll[id].update_required = TRUE], o.record,
                   Array([i \in 1..Len(o.srcs) |-> Num(source_get(S, o.srcs[i]))]))

\* CollationPV._set_update_required
_set_update_required(S, id, value, index) ==
    [S EXCEPT !.coll[id].update_required = TRUE]

\* The bound method a subscription calls
run_callback(S, c) ==
    IF c.cb = "set" THEN MonitorPV_set(S, c.obj, c.value, c.index)
    ELSE IF c.cb = "refresh" THEN refresh(S, c.obj, c.value, c.index)
    ELSE IF c.cb = "invert" THEN invert(S, c.obj, c.value, c.index)
    ELSE IF c.cb = "summate" THEN summate(S, c.obj, c.value, c.index)
    ELSE _set_update_required(S, c.obj, c.value, c.index)

\* The loop of pv.py:247-256 that stops after the first item
set_items_first_only(S, items, field, value) ==
    IF items = <<>> THEN S
    ELSE [S EXCEPT !.sim[<<Head(items), field>>] = Num(value)]

RECURSIVE set_items(_, _, _, _)
\* item.set_value(field, value, units=pytac.ENG, data_source=pytac.SIM) for each item
set_items(S, items, field, value) ==
    IF items = <<>> THEN S
    ELSE set_items([S EXCEPT !.sim[<<Head(items), field>>] = Num(value)],
                   Tail(items), field, value)

\* SetpointPV._on_update
SetpointPV_on_update(S, id, value) ==
    LET in_pv == S.objs[S.objs[id].in_pv]
        S1 == record_set(S, in_pv.record, value)
    IN  set_items(S1, get_pytac_data(in_pv)[1], get_pytac_data(in_pv)[2], value)

\* OffsetPV._on_update with the offset added before the readback is set
OffsetPV_on_update_offset_first(S, id, value) ==
    LET o == S.objs[id]
        in_pv == S.objs[o.in_pv]
        offset_record == S.objs[o.offset_record]
        sum == AddValue(value, S.recs[offset_record.record])
    IN  IF o.offset_record = NoObj THEN Raise(S, "ValueError:No offset record")
        ELSE IF offset_record.record = NoRecord THEN Raise(S, "AttributeError")
        ELSE set_items(record_set(S, in_pv.record, sum),
                       get_pytac_data(in_pv)[1], get_pytac_data(in_pv)[2], sum)

\* OffsetPV._on_update
OffsetPV_on_update(S, id, value) ==
    LET o == S.objs[id]
        in_pv == S.objs[o.in_pv]
        S1 == record_set(S, in_pv.record, value)
        offset_record == S.objs[o.offset_record]
    IN  IF o.offset_record = NoObj THEN Raise(S1, "ValueError:No offset record")
        ELSE IF offset_record.record = NoRecord THEN Raise(S1, "AttributeError")
        ELSE set_items(S1, get_pytac_data(in_pv)[1], get_pytac_data(in_pv)[2],
                       AddValue(value, S1.recs[offset_record.record]))

\* The on_update of the object that made the record
on_update(S, name, value) ==
    LET id == Creator(S, name)
    IN  IF S.objs[id].kind = "OffsetPV" THEN OffsetPV_on_update(S, id, value)
        ELSE IF S.objs[id].kind = "SetpointPV" THEN SetpointPV_on_update(S, id, value)
        ELSE S

----------------------------------------------------------------------------
(* VirtacServer.update_pvs, the callback the simulator calls when a         *)
(* calculation of physics data is completed.                               *)

\* get_value that answers 0 for a field the item does not have
sim_get_value_default(S, item, field) ==
    [err |-> NoErr,
     val |-> IF <<item, field>> \in DOMAIN S.sim THEN Scalar(S.sim[<<item, field>>])
             ELSE Scalar(0)]

\* elements[0].get_value(field, units=pytac.ENG, data_source=pytac.SIM) of
\* virtac_server.py:124: FieldException when the item has no such field
sim_get_value(S, item, field) ==
    IF <<item, field>> \in DOMAIN S.sim
    THEN [err |-> NoErr, val |-> Scalar(S.sim[<<item, field>>])]
    ELSE [err |-> "FieldException", val |-> Scalar(0)]

\* The values of self._readback_pvs_dict in the order of the dict, which is
\* the order in which the names were first put into self._pv_dict
ReadbackIds(S) ==
    LET keys == SelectSeq([i \in 1..Len(S.objs) |-> i],
                          LAMBDA i : /\ S.objs[i].name \in readback_pvs
                                     /\ Creator(S, S.objs[i].name) = i)
    IN  [k \in 1..Len(keys) |-> S.pv_dict[S.objs[keys[k]].name]]

\* The loop of virtac_server.py:120-131: the exception ends it
RECURSIVE pull_each(_, _)
pull_each(S, ids) ==
    IF ids = <<>> THEN S
    ELSE LET pv == S.objs[Head(ids)]
             elements == get_pytac_data(pv)[1]
             field == get_pytac_data(pv)[2]
             got == sim_get_value(S, elements[1], field)
         IN  IF elements = <<>> THEN Raise(S, "IndexError")
             ELSE IF got.err # NoErr THEN Raise(S, got.err)
             ELSE pull_each(record_set(S, pv.record, got.val), Tail(ids))

\* update_pvs that does nothing
update_pvs_skip(S) == S

\* update_pvs over every registered object that is bound to the simulator
update_pvs_every_bound(S) ==
    pull_each(S, SelectSeq([i \in 1..Len(S.objs) |-> i],
                           LAMBDA i : /\ S.objs[i].pytac_items # <<>>
                                      /\ S.objs[i].record # NoRecord
                                      /\ Creator(S, S.objs[i].name) = i))

\* VirtacServer.update_pvs
update_pvs(S) == pull_each(S, ReadbackIds(S))

----------------------------------------------------------------------------
(* The running server *)

\* What a callback leaves behind: an exception in a callback is reported by
\* the dispatcher and the server carries on
Settle(S) == Install([S EXCEPT !.err = NoErr])

Quad == <<1, "b1">>
SetName == "Q1:SETI"        \* the quadrupole's setpoint record
ReadName == "Q1:I"          \* and its readback record

\* The object a name is registered under, NoObj for none
Lookup(name) == IF name \in DOMAIN pv_dict THEN pv_dict[name] ELSE NoObj

\* Some object of the server was told to monitor `name`
Monitored(name) ==
    \E id \in 1..Len(objs) : \E i \in 1..Len(objs[id].monitor_data) :
        objs[id].monitor_data[i][1] = name

\* A PV of another IOC takes a new value; channel access posts it to the open
\* subscriptions
ExtChange(name, v) ==
    /\ err = NoErr
    /\ Monitored(name)
    /\ hist.events < MaxEvents
    /\ ext[name] # Scalar(v)
    /\ Install(PostEvents([Cur EXCEPT !.ext[name] = Scalar(v)], name, Scalar(v), 1, 1))
    /\ hist' = [hist EXCEPT !.events = @ + 1,
                            !.wdirty = @ \/ \E id \in DOMAIN coll :
                                               coll[id].at \in {"csleep", "read"},
                            !.early = @ \/ (pc # "done" /\ \E i \in 1..Len(cbq') :
                                               i > Len(cbq) /\ cbq'[i].cb = "refresh")]
    /\ UNCHANGED <<cfg, pc, row, step, readback_pvs, pv_monitoring, now>>

\* The waveform PV of another IOC takes a new value
ExtWaveform(name, w) ==
    /\ Running
    /\ Monitored(name)
    /\ hist.events < MaxEvents
    /\ ext[name] # Array(w)
    /\ Install(PostEvents([Cur EXCEPT !.ext[name] = Array(w)], name, Array(w), 1, 1))
    /\ hist' = [hist EXCEPT !.events = @ + 1]
    /\ UNCHANGED <<cfg, pc, row, step, readback_pvs, pv_monitoring, now>>

\* A client writes v to an aOut record: the record takes the value, posts it,
\* and softioc queues on_update
ClientPut(name, v) ==
    /\ Running
    /\ name \in DOMAIN recs
    /\ hist.events < MaxEvents
    /\ Install(set_field_PROC(record_set(Cur, name, Scalar(v)), name))
    /\ hist' = [hist EXCEPT !.events = @ + 1,
                            !.written = IF name = SetName THEN v ELSE @]
    /\ UNCHANGED <<cfg, pc, row, step, readback_pvs, pv_monitoring, now>>

\* The camonitor dispatcher runs the next callback
Dispatch ==
    /\ Running
    /\ cbq # <<>>
    /\ LET c  == Head(cbq)
           n  == IF c.cb = "refresh" THEN hist.n + 1 ELSE 0
           S  == run_callback([Cur EXCEPT !.cbq = Tail(@), !.tag = n], c)
           stored == c.cb = "refresh" /\ objs[c.obj].record # NoRecord
                     /\ S.recs[objs[c.obj].record] = c.value
           notified == c.cb = "_set_update_required"
           asleep == notified /\ coll[c.obj].at \in {"loop", "sleep"}
           new_burst == hist.bk = 0 \/ now - hist.bt0 >= minimum_time_between_updates
       IN  /\ Settle(S)
           /\ hist' = [hist EXCEPT
                 !.cb_error = IF S.err # NoErr THEN S.err ELSE @,
                 !.ran_off = @ \/ ~pv_monitoring,
                 !.refreshed = @ \/ (c.cb = "refresh" /\ S.err = NoErr),
                 !.delta = IF c.cb = "refresh" /\ S.err = NoErr THEN Num(c.value) ELSE @,
                 !.early_ran = @ \/ (c.cb = "refresh" /\ hist.early),
                 !.n = IF c.cb = "refresh" THEN n ELSE @,
                 !.stored_n = IF stored THEN n ELSE @,
                 !.sk = IF notified /\ asleep THEN Min(@ + 1, MaxEvents + 2) ELSE @,
                 !.wdirty = @ \/ (notified /\ ~asleep),
                 !.bk = IF ~notified THEN @ ELSE IF new_burst THEN 1
                        ELSE Min(@ + 1, MaxEvents + 2),
                 !.bt0 = IF notified /\ new_burst THEN now ELSE @,
                 !.btl = IF notified THEN now ELSE @,
                 !.bst = IF notified /\ new_burst THEN 0 ELSE @]
    /\ UNCHANGED <<cfg, pc, row, step, readback_pvs, pv_monitoring, now>>

\* softioc runs the next on_update
ProcessRecord ==
    /\ Running
    /\ procq # <<>>
    /\ LET p == Head(procq)
           S == on_update([Cur EXCEPT !.procq = Tail(@)], p.name, p.value)
       IN  /\ Settle(S)
           /\ hist' = [hist EXCEPT
                 !.cb_error = IF S.err # NoErr THEN S.err ELSE @,
                 !.read_for = IF p.name = SetName THEN p.trig ELSE @,
                 !.read_n = IF p.name = SetName THEN hist.stored_n ELSE @,
                 !.pulled = FALSE]
    /\ UNCHANGED <<cfg, pc, row, step, readback_pvs, pv_monitoring, now>>

\* The fields the simulator computes: those of the lattice that have no
\* setpoint
Computed == {<<4, "x">>, <<LatticeItem, "energy">>}

\* The simulator completes a calculation of physics data, which gives the
\* computed fields new values, and calls update_pvs
Recalculate(vx, ve) ==
    /\ Running
    /\ hist.events < MaxEvents
    /\ LET physics == [k \in DOMAIN sim |->
                          IF k = <<4, "x">> THEN vx
                          ELSE IF k = <<LatticeItem, "energy">> THEN ve
                          ELSE sim[k]]
           S == update_pvs([Cur EXCEPT !.sim = physics])
       IN  /\ Settle(S)
           /\ hist' = [hist EXCEPT !.events = @ + 1,
                                   !.pull_error = S.err,
                                   !.pulled = (S.err = NoErr)]
    /\ UNCHANGED <<cfg, pc, row, step, readback_pvs, pv_monitoring, now>>

\* An item of the simulator stops having a computed field
LoseField(k) ==
    /\ Running
    /\ k \in Computed \cap DOMAIN sim
    /\ sim' = [j \in DOMAIN sim \ {k} |-> sim[j]]
    /\ hist' = [hist EXCEPT !.pulled = FALSE]
    /\ UNCHANGED <<cfg, pc, row, step, err, objs, pv_dict, readback_pvs, pv_monitoring,
                   recs, ext, cbq, procq, coll, now>>

\* The values of self._pv_dict that are MonitorPVs, in the order of the dict:
\* a key keeps the place of its first insertion, which was made for the first
\* object of that name
MonitorIds(S) ==
    LET keys == SelectSeq([i \in 1..Len(S.objs) |-> i],
                          LAMBDA i : /\ S.objs[i].name \in DOMAIN S.pv_dict
                                     /\ Creator(S, S.objs[i].name) = i)
        values == [k \in 1..Len(keys) |-> S.pv_dict[S.objs[keys[k]].name]]
    IN  SelectSeq(values, LAMBDA id : S.objs[id].kind \in MonitorKinds)

RECURSIVE toggle_all(_, _, _)
toggle_all(S, ids, enable) ==
    IF ids = <<>> \/ S.err # NoErr THEN S
    ELSE toggle_all(toggle_monitoring(S, Head(ids), enable), Tail(ids), enable)

\* VirtacServer.disable_monitoring
disable_monitoring(S) ==
    IF ~pv_monitoring THEN S ELSE toggle_all(S, MonitorIds(S), FALSE)

\* enable_monitoring without the test of _pv_monitoring
enable_monitoring_unguarded(S) == toggle_all(S, MonitorIds(S), TRUE)

\* VirtacServer.enable_monitoring
enable_monitoring(S) ==
    IF pv_monitoring THEN S ELSE toggle_all(S, MonitorIds(S), TRUE)

DisableMonitoring ==
    /\ Running
    /\ hist.toggles < MaxToggles
    /\ Settle(disable_monitoring(Cur))
    /\ pv_monitoring' = FALSE
    /\ hist' = [hist EXCEPT !.toggles = @ + 1,
                            !.md0 = IF pv_monitoring
                                    THEN [i \in 1..Len(objs) |-> objs[i].monitor_data]
                                    ELSE @,
                            !.ran_off = FALSE]
    /\ UNCHANGED <<cfg, pc, row, step, readback_pvs, now>>

EnableMonitoring ==
    /\ Running
    /\ hist.toggles < MaxToggles
    /\ LET S == enable_monitoring(Cur)
       IN  /\ Settle(S)
           /\ pv_monitoring' = (pv_monitoring \/ S.err = NoErr)
           /\ hist' = [hist EXCEPT !.toggles = @ + 1,
                                   !.cycled = @ \/ ~pv_monitoring]
    /\ UNCHANGED <<cfg, pc, row, step, readback_pvs, now>>

\* Code that holds the node calls its setup_pv_monitoring, once in a
\* behaviour; an exception goes to that caller
SetupMonitoring(id, pv_names, callbacks) ==
    /\ Running
    /\ hist.setup.id = NoObj
    /\ LET S == setup_pv_monitoring(Cur, id, pv_names, callbacks)
       IN  /\ Settle(S)
           /\ hist' = [hist EXCEPT !.setup = [id |-> id, pv_names |-> pv_names,
                                              callbacks |-> callbacks, err |-> S.err]]
    /\ UNCHANGED <<cfg, pc, row, step, readback_pvs, pv_monitoring, now>>

\* Code that holds the node calls its toggle_monitoring
ToggleNode(id, enable) ==
    /\ Running
    /\ hist.toggles < MaxToggles
    /\ Settle(toggle_monitoring(Cur, id, enable))
    /\ hist' = [hist EXCEPT !.toggles = @ + 1]
    /\ UNCHANGED <<cfg, pc, row, step, readback_pvs, pv_monitoring, now>>

----------------------------------------------------------------------------
(* CollationPV._periodic_update, the cothread spawned by the constructor.  *)
(* coll[id].at is where the task waits: "loop" (spawned, not yet run),     *)
(* "sleep" (cothread.Sleep of line 618), "csleep" (cothread.Sleep of line  *)
(* 639) or "read" (a caget of line 640).                                   *)

task_sleep(S, id, where, duration) ==
    [S EXCEPT !.coll[id].at = where, !.coll[id].wake = now + duration]

RECURSIVE _periodic_update(_, _)

\* collate() that returns without clearing the flag
collate_store_keep_flag(S, id, value) ==
    LET S1 == set_field_PROC(record_set(S, S.objs[id].record, Array(value)),
                             S.objs[id].record)
    IN  _periodic_update([S1 EXCEPT !.coll[id].last_update_time = now,
                                    !.coll[id].buf = <<>>,
                                    !.stored = TRUE],
                         id)

\* collate(), lines 642-645; it returns into the loop of _periodic_update
collate_store(S, id, value) ==
    LET S1 == set_field_PROC(record_set(S, S.objs[id].record, Array(value)),
                             S.objs[id].record)
    IN  _periodic_update([S1 EXCEPT !.coll[id].last_update_time = now,
                                    !.coll[id].update_required = FALSE,
                                    !.coll[id].buf = <<>>,
                                    !.stored = TRUE],
                         id)

RECURSIVE collate_read(_, _)

\* collate(), line 640, with each value put in front of those read before
collate_read_prepend(S, id) ==
    LET buf == S.coll[id].buf
        src == S.objs[id].srcs[Len(buf) + 1]
        S1  == [S EXCEPT !.coll[id].buf = <<Num(source_get(S, src))>> \o @]
    IN  IF Len(buf) = Len(S.objs[id].srcs) THEN collate_store(S, id, buf)
        ELSE IF src.ca THEN [S1 EXCEPT !.coll[id].at = "read"]
        ELSE collate_read(S1, id)

\* collate(), line 640: record.get() of each source in turn.  The get of a
\* PV object returns at once; the caget of a CaPV yields until the reply.
collate_read(S, id) ==
    LET buf == S.coll[id].buf
        src == S.objs[id].srcs[Len(buf) + 1]
        S1  == [S EXCEPT !.coll[id].buf = Append(@, Num(source_get(S, src)))]
    IN  IF Len(buf) = Len(S.objs[id].srcs) THEN collate_store(S, id, buf)
        ELSE IF src.ca THEN [S1 EXCEPT !.coll[id].at = "read"]
        ELSE collate_read(S1, id)

\* collate(), lines 638-639
collate(S, id) ==
    LET elapsed == now - S.coll[id].last_update_time
    IN  IF elapsed < minimum_time_between_updates
        THEN task_sleep(S, id, "csleep", elapsed)
        ELSE collate_read(S, id)

\* _periodic_update, lines 614-618: the loop, up to where it yields
_periodic_update(S, id) ==
    IF S.coll[id].update_required THEN collate(S, id)
    ELSE task_sleep(S, id, "sleep", minimum_time_between_updates)

\* The task runs from where it waits to where it next yields
resume_task(S, id) ==
    IF S.coll[id].at \in {"loop", "sleep"} THEN _periodic_update(S, id)
    ELSE collate_read(S, id)

Sleeping(c) == c.at \in {"sleep", "csleep"}
Runnable(c) == ~Sleeping(c) \/ c.wake <= now

DrainTask(id) ==
    /\ Running
    /\ id \in DOMAIN coll
    /\ Runnable(coll[id])
    /\ LET S == resume_task(Cur, id)
           wakes == coll[id].at \in {"loop", "sleep"}
       IN  /\ Settle(S)
           /\ hist' = [hist EXCEPT
                 !.nstores = IF S.stored THEN Min(@ + 1, 2) ELSE @,
                 !.gap = IF S.stored /\ hist.nstores > 0 THEN now - hist.last_store ELSE @,
                 !.last_store = IF S.stored THEN now ELSE @,
                 !.wk = IF wakes THEN hist.sk ELSE @,
                 !.sk = IF wakes THEN 0 ELSE @,
                 !.wst = IF S.stored THEN (IF wakes THEN 1 ELSE Min(@ + 1, 2))
                         ELSE IF wakes THEN 0 ELSE @,
                 !.wdirty = IF wakes THEN FALSE ELSE @,
                 !.svals = IF S.stored
                           THEN [i \in 1..Len(objs[id].srcs) |->
                                    Num(source_get(Cur, objs[id].srcs[i]))]
                           ELSE @,
                 !.bst = IF S.stored /\ hist.bk > 0
                            /\ now <= hist.btl + minimum_time_between_updates
                         THEN Min(@ + 1, 2) ELSE @]
    /\ UNCHANGED <<cfg, pc, row, step, readback_pvs, pv_monitoring, now>>

\* The clock advances by one tick.  A tick is long against the time a ready
\* cothread waits for its turn and against the latency of channel access: a
\* queued callback, a task that is ready or waits for the reply to a caget,
\* and a sleeping task that is due, run before the clock moves on.
Tick ==
    /\ Running
    /\ now < MaxTime
    /\ cbq = <<>> /\ procq = <<>>
    /\ \A id \in DOMAIN coll : Sleeping(coll[id]) /\ now < coll[id].wake
    /\ now' = now + 1
    /\ UNCHANGED <<cfg, pc, row, step, err, objs, pv_dict, readback_pvs, pv_monitoring,
                   recs, ext, sim, cbq, procq, coll, hist>>

----------------------------------------------------------------------------
(* Configurations: rows of the feedback, mirror and tune csv files *)

Text(c) == <<c>>

OffsetName == "Q1:OFFSET1"
\* A feedback row making the offset record of the quadrupole
fOff == [index |-> 1, field |-> "offset", pv |-> OffsetName, value |-> Text("0"),
         record_type |-> "ai"]
\* A feedback row whose name is the BPM's readback record
fDup == [index |-> 4, field |-> "enabled", pv |-> "BPM:X", value |-> Text("1"),
         record_type |-> "ai"]

\* Mirror rows: a copy of a PV of another IOC, a sum of a record of this
\* server and a PV of another IOC, a second row for the name M:A, and a
\* collation of two PVs of another IOC
mBasic == [output_type |-> "ai", mirror_type |-> "basic", in_pv |-> <<"EXT:A">>,
           out_pv |-> "M:A", value |-> Text("0")]
mSum   == [output_type |-> "ai", mirror_type |-> "summate", in_pv |-> <<"Q1:I", "EXT:A">>,
           out_pv |-> "M:S", value |-> Text("0")]
mDup   == [output_type |-> "ai", mirror_type |-> "inverse", in_pv |-> <<"EXT:B">>,
           out_pv |-> "M:A", value |-> Text("0")]
mColl  == [output_type |-> "wfm", mirror_type |-> "collate", in_pv |-> <<"EXT:A", "EXT:B">>,
           out_pv |-> "M:C", value |-> <<"[", "0", " ", "0", "]">>]

\* Mirror rows: the inverse of a waveform of another IOC, and the inverse of a
\* record of this server and a PV of another IOC
mInv1  == [output_type |-> "wfm", mirror_type |-> "inverse", in_pv |-> <<WaveName>>,
           out_pv |-> "M:I", value |-> <<"[", "0", " ", "0", " ", "0", "]">>]
mInvN  == [output_type |-> "wfm", mirror_type |-> "inverse", in_pv |-> <<"Q1:I", "EXT:B">>,
           out_pv |-> "M:N", value |-> <<"[", "0", " ", "0", "]">>]

\* Tune rows: the quadrupole's setpoint, its offset record, the delta PV
tA == [set_pv |-> SetName, offset_pv |-> OffsetName, delta_pv |-> "TFB:I"]
tB == [set_pv |-> SetName, offset_pv |-> OffsetName, delta_pv |-> "EXT:B"]

Config(feedback, mirror, tune, disable_tunefb) ==
    [feedback |-> feedback, mirror |-> mirror, tune |-> tune,
     disable_tunefb |-> disable_tunefb]

Configs ==
    { Config(<<fOff>>, <<mBasic>>, <<tA>>, FALSE),
      Config(<<fOff>>, <<mSum>>, <<tA, tB>>, FALSE),
      Config(<<fOff>>, <<mSum>>, <<tA>>, TRUE),
      Config(<<fOff, fDup>>, <<mBasic>>, <<tA>>, FALSE),
      Config(<<fOff>>, <<mBasic, mDup>>, <<tA>>, FALSE) }

ChainConfigs ==
    { Config(<<fOff>>, <<mBasic>>, <<tA>>, FALSE),
      Config(<<fOff>>, <<mSum>>, <<tA, tB>>, FALSE) }

CollateConfigs == { Config(<<>>, <<mColl>>, <<>>, TRUE) }

----------------------------------------------------------------------------
(* Specifications *)

HistInit ==
    [events |-> 0, early |-> FALSE, written |-> 0, cb_error |-> NoErr,
     ran_off |-> FALSE, refreshed |-> FALSE, delta |-> 0, early_ran |-> FALSE,
     n |-> 0, stored_n |-> 0, read_for |-> 0, read_n |-> 0,
     toggles |-> 0, md0 |-> <<>>, cycled |-> FALSE,
     nstores |-> 0, gap |-> minimum_time_between_updates, last_store |-> 0,
     sk |-> 0, wk |-> 0, wst |-> 0, wdirty |-> FALSE, svals |-> <<>>,
     bk |-> 0, bt0 |-> 0, btl |-> 0, bst |-> 0,
     pull_error |-> NoErr, pulled |-> FALSE,
     setup |-> [id |-> NoObj, pv_names |-> <<>>, callbacks |-> <<>>, err |-> NoErr],
     out |-> <<>>]

\* The program at control point p, with nothing built
StartAt(configs, p) ==
    /\ cfg \in configs
    /\ pc = p /\ row = 1 /\ step = 0 /\ err = NoErr
    /\ objs = <<>>
    /\ pv_dict = <<>> /\ recs = <<>> /\ coll = <<>>
    /\ readback_pvs = {}
    /\ pv_monitoring = TRUE
    /\ ext = [name \in ExtNames |-> IF name = WaveName THEN Array([i \in 1..WaveLen |-> 0])
                                    ELSE Scalar(0)]
    /\ sim = [k \in SimKeys |-> 0]
    /\ cbq = <<>> /\ procq = <<>>
    /\ now = 0
    /\ hist = HistInit

\* The state VirtacServer.__init__ starts from
Start(configs) == StartAt(configs, "core")

Init == Start(Configs)

Next ==
    \/ CreateCorePvs
    \/ FeedbackRow
    \/ EmitStatus
    \/ MirrorRow
    \/ TuneRow
    \/ Collect
    \/ \E name \in ExtNames, v \in Vals : Running /\ ExtChange(name, v)
    \/ Dispatch
    \/ ProcessRecord
    \/ DisableMonitoring
    \/ EnableMonitoring

\* The builder on every configuration, then the running server with
\* notifications from other IOCs and monitoring switched off and on
Spec == Init /\ [][Next]_vars

InitChain == Start(ChainConfigs)

NextChain ==
    \/ CreateCorePvs
    \/ FeedbackRow
    \/ EmitStatus
    \/ MirrorRow
    \/ TuneRow
    \/ Collect
    \/ \E name \in ExtNames, v \in Vals : ExtChange(name, v)
    \/ \E v \in Vals : ClientPut(SetName, v)
    \/ Dispatch
    \/ ProcessRecord

\* The offset chain: setpoint writes by clients and delta notifications
SpecChain == InitChain /\ [][NextChain]_vars

InitCollate == Start(CollateConfigs)

NextCollate ==
    \/ CreateCorePvs
    \/ EmitStatus
    \/ MirrorRow
    \/ Collect
    \/ \E name \in {"EXT:A", "EXT:B"}, v \in Vals : ExtChange(name, v)
    \/ Dispatch
    \/ \E id \in DOMAIN coll : DrainTask(id)
    \/ Tick

\* A collation of two PVs of another IOC, with its drain task and the clock
SpecCollate == InitCollate /\ [][NextCollate]_vars

\* A collation of two PVs of another IOC
DrainConfigs == { Config(<<>>, <<mColl>>, <<>>, TRUE) }

NextDrain ==
    \/ CreateCorePvs
    \/ EmitStatus
    \/ MirrorRow
    \/ Collect
    \/ \E v \in Vals : /\ Running /\ cbq = <<>>
                        /\ \A id \in DOMAIN coll : Sleeping(coll[id])
                        /\ ExtChange("EXT:A", v)
    \/ Dispatch
    \/ \E id \in DOMAIN coll : DrainTask(id)
    \/ Tick
    \/ DisableMonitoring
    \/ EnableMonitoring

\* The drain task and the clock, with monitoring switched off and on; a
\* source changes while the task sleeps
SpecDrain == Start(DrainConfigs) /\ [][NextDrain]_vars

SimConfigs == { Config(<<fOff>>, <<mBasic>>, <<tA>>, FALSE) }

BendSetName == "BB:SETI"    \* the setpoint record the bend magnets share
BendReadName == "BB:I"      \* and its readback record

InitSim == Start(SimConfigs)

NextSim ==
    \/ CreateCorePvs
    \/ FeedbackRow
    \/ EmitStatus
    \/ MirrorRow
    \/ TuneRow
    \/ Collect
    \/ \E v \in Vals : Running /\ ExtChange("TFB:I", v)
    \/ \E name \in {SetName, BendSetName}, v \in Vals : ClientPut(name, v)
    \/ Dispatch
    \/ ProcessRecord
    \/ \E vx \in Vals, ve \in Vals : Recalculate(vx, ve)
    \/ \E k \in Computed : LoseField(k)

\* The simulator: setpoint writes by clients, delta notifications, and
\* calculations that end with update_pvs
SpecSim == InitSim /\ [][NextSim]_vars

MirrorConfigs ==
    { Config(<<>>, <<mSum, mInvN>>, <<>>, TRUE),
      Config(<<>>, <<mBasic, mInv1>>, <<>>, TRUE) }

InitMirror == Start(MirrorConfigs)

NextMirror ==
    \/ CreateCorePvs
    \/ EmitStatus
    \/ MirrorRow
    \/ Collect
    \/ \E name \in {"EXT:A", "EXT:B"}, v \in Vals : Running /\ ExtChange(name, v)
    \/ \E w \in [1..WaveLen -> Vals] : ExtWaveform(WaveName, w)
    \/ \E v \in Vals : Monitored(ReadName) /\ ClientPut(SetName, v)
    \/ Dispatch
    \/ ProcessRecord

\* The mirror nodes: notifications from other IOCs and from a record of the
\* server, which clients write through its setpoint when a node monitors it
SpecMirror == InitMirror /\ [][NextMirror]_vars

\* Configurations with a quadrupole that has no tune row, and with rows that
\* the builder stops at: a feedback row with an empty value cell, a mirror row
\* with a value that is no number, tune rows that name a setpoint that is
\* not registered, an offset record that is not registered, and a setpoint
\* that does no offsetting, and mirror rows with two inputs for a basic
\* mirror, one input for a summation, one input for a collation, and a
\* mirror type that does not exist; and one with inverse mirrors of two
\* inputs and of one
BuildConfigs ==
    { Config(<<>>, <<mBasic>>, <<>>, FALSE),
      Config(<<fOff>>, <<mBasic>>, <<tA>>, FALSE),
      Config(<<fOff, [fOff EXCEPT !.pv = "F:E", !.value = <<>>]>>, <<mBasic>>, <<tA>>, FALSE),
      Config(<<fOff>>, <<mSum, [mBasic EXCEPT !.value = Text("x")]>>, <<tA>>, FALSE),
      Config(<<fOff>>, <<>>, <<[tA EXCEPT !.set_pv = "Q9:SETI"]>>, FALSE),
      Config(<<>>, <<>>, <<tA>>, FALSE),
      Config(<<fOff>>, <<>>, <<tA, [tA EXCEPT !.set_pv = BendSetName]>>, FALSE),
      Config(<<>>, <<mSum, [mBasic EXCEPT !.in_pv = <<"EXT:A", "EXT:B">>]>>, <<>>, TRUE),
      Config(<<>>, <<mBasic, [mSum EXCEPT !.in_pv = <<"EXT:A">>]>>, <<>>, TRUE),
      Config(<<>>, <<mBasic, [mColl EXCEPT !.in_pv = <<"EXT:A">>]>>, <<>>, TRUE),
      Config(<<>>, <<mInvN, [mInvN EXCEPT !.in_pv = <<"EXT:B">>, !.out_pv = "M:I"]>>, <<>>, TRUE),
      Config(<<>>, <<mSum, [mBasic EXCEPT !.mirror_type = "scale"]>>, <<>>, TRUE) }

\* The builder on those configurations, and the server it hands out
SpecBuild == Start(BuildConfigs) /\ [][NextChain]_vars

\* The command line: the options given, and the version of the installed
\* package, virtac.__version__, which setuptools_scm computes at build time
PackageVersions == { <<"1", ".", "0">>, <<"0", ".", "1", ".", "d", "e", "v", "1">> }
CliConfigs ==
    { [argv |-> argv, version |-> version,
       feedback |-> <<fOff>>, mirror |-> <<mBasic>>, tune |-> <<tA>>,
       disable_tunefb |-> ("--disable-tfb" \in argv)] :
        argv \in SUBSET {"--version", "--disable-tfb"}, version \in PackageVersions }

\* The version argument of __main__.py:76, a string literal
version_text == <<"_", "_", "v", "e", "r", "s", "i", "o", "n", "_", "_">>

\* async_main up to the call of VirtacServer.create: argparse's version action
\* prints the version argument and a newline and exits; without the option
\* the server is built
ParseArguments ==
    /\ pc = "main"
    /\ IF "--version" \in cfg.argv
       THEN pc' = "exit" /\ hist' = [hist EXCEPT !.out = version_text \o <<"\n">>]
       ELSE pc' = "core" /\ hist' = hist
    /\ UNCHANGED <<cfg, row, step, err, objs, pv_dict, readback_pvs, pv_monitoring,
                   recs, ext, sim, cbq, procq, coll, now>>

NextCli ==
    \/ ParseArguments
    \/ NextChain

\* The program from its command line on
SpecCli == StartAt(CliConfigs, "main") /\ [][NextCli]_vars

SetupConfigs == { Config(<<>>, <<mSum>>, <<>>, TRUE) }

\* The names and the callback lists a caller passes to setup_pv_monitoring:
\* up to MaxNames names, the last of which may be no str, and None or up to
\* MaxNames + 1 bound methods
StrLists(n) == UNION {[1..k -> {"EXT:A", "EXT:B"}] : k \in 0..n}
NameLists ==
    (StrLists(MaxNames) \ {<<>>}) \union
    {Append(l, NotAString) : l \in StrLists(MaxNames - 1)}
CallbackLists ==
    {DefaultCallbacks} \union
    {[i \in 1..k |-> "summate"] : k \in 1..(MaxNames + 1)}

NextSetup ==
    \/ CreateCorePvs
    \/ EmitStatus
    \/ MirrorRow
    \/ Collect
    \/ \E v \in Vals : Running /\ cbq = <<>> /\ ExtChange("EXT:A", v)
    \/ Dispatch
    \/ \E i \in 1..Len(MonitorIds(Cur)), pv_names \in NameLists, callbacks \in CallbackLists :
          SetupMonitoring(MonitorIds(Cur)[i], pv_names, callbacks)
    \/ \E i \in 1..Len(MonitorIds(Cur)), enable \in BOOLEAN :
          ToggleNode(MonitorIds(Cur)[i], enable)

\* One mirror node whose setup_pv_monitoring and toggle_monitoring are called
\* directly; the PV of the other IOC changes when the dispatcher is idle
SpecSetup == Start(SetupConfigs) /\ [][NextSetup]_vars

----------------------------------------------------------------------------
(* Properties of the offset chain (SpecChain) *)

\* No on_update of the setpoint is waiting
SetpointSettled == \A i \in 1..Len(procq) : procq[i].name # SetName

C2_OffsetChainOrdering == hist.read_n >= hist.read_for

\* A reprocess forced by a notification that carried a new delta has run
C2_Witness == hist.read_for >= 2 /\ hist.read_n >= hist.read_for /\ hist.delta = 1

\* The chain node C is initialised and its target has an offset source
\* holding C's record
ChainReady(id) ==
    LET C == objs[id]
    IN  /\ C.record # NoRecord
        /\ C.record_to_refresh # NoObj
        /\ objs[C.record_to_refresh].offset_record # NoObj
        /\ objs[objs[C.record_to_refresh].offset_record].record = C.record

\* C10: whenever a callback of a chain node can run, the node has its
\* cannibalised record and its refresh target, and the target setpoint has an
\* offset source attached that holds that record; no chain callback or
\* setpoint reprocess has ever met a missing attribute or a missing offset.
C10_ChainInitialisedBeforeUse ==
    /\ Running => \A i \in 1..Len(cbq) : cbq[i].cb = "refresh" => ChainReady(cbq[i].obj)
    /\ hist.cb_error \notin {"AttributeError", "ValueError:No offset record"}

\* A delta notification arrived while the constructor was running, and the
\* chain node's callback has run since and the setpoint has reprocessed
C10_Witness == hist.early_ran /\ hist.read_for >= 1 /\ hist.cb_error = NoErr

----------------------------------------------------------------------------
(* Properties of the collation node (SpecCollate) *)

CollateName == "M:C"
CollateId == Lookup(CollateName)
\* The values the sources of the collation node have now
SourceValues == [i \in 1..Len(objs[CollateId].srcs) |->
                    Num(source_get(Cur, objs[CollateId].srcs[i]))]
\* The drain task sleeps in its loop
Asleep == CollateId # NoObj /\ Running /\ coll[CollateId].at = "sleep"

C4_EventualConsistency ==
    (Asleep /\ cbq = <<>> /\ ~coll[CollateId].update_required /\ hist.nstores >= 1) =>
        recs[CollateName] = Array(SourceValues)

\* C5: two consecutive stores to the record of a collation node are at least
\* one drain interval apart.
C5_RateCeiling == hist.nstores >= 2 => hist.gap >= minimum_time_between_updates

\* Two stores have been made, the second right after a notification that
\* arrived during the sleep that followed the first
C5_Witness == hist.nstores = 2 /\ hist.gap = minimum_time_between_updates /\ hist.wk >= 1

\* The callback the dispatcher runs in this step, and the node it belongs to
Notified == Head(cbq)
NotifiedNode == objs[Head(cbq).obj]
\* The values the drain task of node id has read since it began to collate
Read(id) == coll[id].buf
\* The drain task of node id stores in this step
Stores(id) == DrainTask(id) /\ Read(id) # <<>> /\ coll'[id].buf = <<>>

\* C19: the drain task reads its sources one after the other in the order
\* of the subscriptions, each once; a store writes the array of the values
\* read, one per source in that order, and the record takes a new value
\* only by such a store.
C19_CollateContent ==
    [][ \A id \in DOMAIN coll :
          /\ (coll'[id].buf # Read(id) /\ coll'[id].buf # <<>>) =>
                /\ DrainTask(id)
                /\ Len(Read(id)) < Len(objs[id].srcs)
                /\ coll'[id].buf =
                      Append(Read(id), Num(source_get(Cur, objs[id].srcs[Len(Read(id)) + 1])))
          /\ Stores(id) =>
                /\ Len(Read(id)) = Len(objs[id].srcs)
                /\ recs'[objs[id].record] = Array(Read(id))
          /\ recs'[objs[id].record] # recs[objs[id].record] => Stores(id) ]_vars

\* A store has written 1 for the first source and 0 for the second
C19_Witness ==
    /\ Asleep /\ hist.nstores >= 1
    /\ objs[CollateId].srcs = <<CaPV("EXT:A"), CaPV("EXT:B")>>
    /\ recs[CollateName] = Array(<<1, 0>>)

\* C20: the callback of a notification to a collation node sets
\* _update_required and changes nothing else; the node's record changes
\* only in a step of its drain task, and only when the flag is set.
C20_NotificationOnlyMarksPending ==
    [][ /\ (Dispatch /\ Notified.cb = "_set_update_required") =>
              /\ coll' = [coll EXCEPT ![Notified.obj].update_required = TRUE]
              /\ cbq' = Tail(cbq)
              /\ UNCHANGED <<objs, pv_dict, recs, ext, sim, procq>>
        /\ \A id \in DOMAIN coll :
              recs'[objs[id].record] # recs[objs[id].record] =>
                  (DrainTask(id) /\ coll[id].update_required) ]_vars

\* A notification was handled while the drain task sleeps: the flag is set
\* and the record does not hold the new value yet
C20_Witness ==
    /\ Asleep /\ cbq = <<>>
    /\ coll[CollateId].update_required
    /\ ext["EXT:A"] = Scalar(1)
    /\ recs[CollateName] = Array(<<0, 0>>)

----------------------------------------------------------------------------
(* Properties of the graph builder and of monitoring (Spec) *)

\* The record names VirtacServer._create_core_pvs makes
CoreNames ==
    ({Lattice[i].rb : i \in 1..Len(Lattice)} \union {Lattice[i].sp : i \in 1..Len(Lattice)}
        \union {LatticePvName}) \ {NoName}

FeedbackNames(n) == {cfg.feedback[j].pv : j \in 1..n}
MirrorNames(n) == {cfg.mirror[j].out_pv : j \in 1..n}

\* The csv row r of phase p, the record name it defines, and the names defined
\* before the builder comes to it
RowOf(p, r) == IF p = "feedback" THEN cfg.feedback[r] ELSE cfg.mirror[r]
RowName(p, r) == IF p = "feedback" THEN cfg.feedback[r].pv ELSE cfg.mirror[r].out_pv
NamesBefore(p, r) ==
    IF p = "feedback" THEN CoreNames \union FeedbackNames(r - 1)
    ELSE CoreNames \union FeedbackNames(Len(cfg.feedback)) \union {EmitStatusName}
            \union MirrorNames(r - 1)

\* The builder has gone past row r of phase p
Processed(p, r) ==
    IF p = "feedback"
    THEN pc \in {"emit", "mirror", "tune", "collect", "done"} \/ (pc = p /\ row > r)
    ELSE pc \in {"tune", "collect", "done"} \/ (pc = p /\ row > r)

\* The builder stopped with an exception at row r of phase p
FailedAt(p, r) == pc = p /\ row = r /\ err # NoErr

\* Nothing but its name can be wrong with the row
WellFormed(p, r) ==
    /\ parse_value(RowOf(p, r).value).err = NoErr
    /\ p = "feedback" => RowOf(p, r).record_type \in RecordTypes
    /\ p = "mirror" =>
          /\ RowOf(p, r).output_type \in RecordTypes
          /\ RowOf(p, r).mirror_type \in {"basic", "inverse", "summate", "collate"}
          /\ RowOf(p, r).mirror_type = "basic" => Len(RowOf(p, r).in_pv) = 1
          /\ RowOf(p, r).mirror_type \in {"summate", "collate"} => Len(RowOf(p, r).in_pv) >= 2

DefiningRows == {<<p, r>> \in {"feedback", "mirror"} \X (1..2) : r <= PhaseLen(p)}

\* C6, as stated: after monitoring was disabled and enabled again, every
\* node's _monitor_data is what it was before the disable.
C6_ReenableIdempotent ==
    hist.cycled => \A id \in 1..Len(hist.md0) : objs[id].monitor_data = hist.md0[id]

\* C7, as stated: while monitoring is disabled, no node made by the
\* constructor has an open subscription, and no callback of a node runs.
C7_DisableTearsDownAll ==
    (Running /\ ~pv_monitoring) =>
        /\ \A id \in 1..Len(objs) :
              objs[id].kind \in MonitorKinds => objs[id].camonitor_handles = <<>>
        /\ ~hist.ran_off

\* C8: the builder never goes past a row that defines a name already
\* defined; it stops there with the duplicate-name error, the server is
\* never handed out, and the name still belongs to the one node of the row
\* that defined it first.
C8_DuplicateNamesFail ==
    /\ \A d \in DefiningRows : Processed(d[1], d[2]) => RowName(d[1], d[2]) \notin NamesBefore(d[1], d[2])
    /\ \A d \in DefiningRows :
          (FailedAt(d[1], d[2]) /\ WellFormed(d[1], d[2])
             /\ RowName(d[1], d[2]) \in NamesBefore(d[1], d[2])) => err = "DuplicateName"
    /\ err = "DuplicateName" =>
          /\ pc \in {"feedback", "mirror"} /\ ~Running
          /\ RowName(pc, row) \in NamesBefore(pc, row)
          /\ RowName(pc, row) \in DOMAIN pv_dict
          /\ pv_dict[RowName(pc, row)] = Creator(Cur, RowName(pc, row))
          /\ Cardinality({id \in 1..Len(objs) : objs[id].name = RowName(pc, row)}) = 1

\* The builder stopped at a mirror row whose name an earlier mirror row defined
C8_Witness ==
    /\ FailedAt("mirror", 2) /\ err = "DuplicateName"
    /\ cfg.mirror[2].out_pv = cfg.mirror[1].out_pv
    /\ objs[pv_dict[cfg.mirror[2].out_pv]].kind = "MonitorPV"

\* What the builder binds an input name of mirror row r to
ExpectedSource(r, name) ==
    IF name \in NamesBefore("mirror", r) THEN OwnSource(pv_dict[name], name) ELSE CaPV(name)

Unresolved(r) ==
    \E i \in 1..Len(cfg.mirror[r].in_pv) : cfg.mirror[r].in_pv[i] \notin NamesBefore("mirror", r)

\* C9, as the behaviour of the code: an input name that is not registered
\* when its mirror row is processed does not stop the builder; the row's node
\* is made and registered, it monitors the row's input names, and a
\* registered input is bound to the registered object, an unregistered one to
\* a channel-access PV of that name.  The builder stops at a mirror row only
\* for the row's name, counts, value or types.
C9_UnresolvedInputReadOverCA ==
    \A r \in 1..Len(cfg.mirror) :
        /\ Processed("mirror", r) =>
              /\ cfg.mirror[r].out_pv \in DOMAIN pv_dict
              /\ LET o == objs[pv_dict[cfg.mirror[r].out_pv]]
                      in_pv == cfg.mirror[r].in_pv
                 IN  /\ Len(o.monitor_data) >= Len(in_pv)
                     /\ \A i \in 1..Len(in_pv) : o.monitor_data[i][1] = in_pv[i]
                     /\ o.kind # "MonitorPV" =>
                           o.srcs = [i \in 1..Len(in_pv) |-> ExpectedSource(r, in_pv[i])]
        /\ FailedAt("mirror", r) =>
              err \in {"DuplicateName", "IndexError", "ValueError:Invalid initial value",
                       "ValueError:record_type", "KeyError:mirror type"}

\* The server runs with a summation node, one input of which is a record of
\* the server and the other a name the registry never held
C9_Witness ==
    /\ Running /\ Len(cfg.mirror) = 1 /\ Unresolved(1)
    /\ cfg.mirror[1].out_pv \in DOMAIN pv_dict
    /\ objs[pv_dict[cfg.mirror[1].out_pv]].srcs = <<OwnSource(pv_dict["Q1:I"], "Q1:I"), CaPV("EXT:A")>>
    /\ objs[pv_dict[cfg.mirror[1].out_pv]].camonitor_handles # <<>>

\* C9, as stated: the builder never goes past a mirror row with an input name
\* that is not registered, and no node is made for such a row.
C9_UnresolvedInputFails ==
    \A r \in 1..Len(cfg.mirror) :
        Unresolved(r) => (~Processed("mirror", r) /\ cfg.mirror[r].out_pv \notin DOMAIN pv_dict)

----------------------------------------------------------------------------
(* Properties of the nodes bound to the simulator (SpecSim) *)

\* C11: when the on_update of a SetpointPV runs with value v, afterwards the
\* record of its paired readback node is v and every simulator item bound to
\* that node holds v in the bound field.
C11_SetpointWrite ==
    [][ (ProcessRecord /\ objs[Creator(Cur, Head(procq).name)].kind = "SetpointPV") =>
          LET p == Head(procq)
              in_pv == objs[objs[Creator(Cur, p.name)].in_pv]
          IN  /\ recs'[in_pv.record] = p.value
              /\ \A i \in 1..Len(in_pv.pytac_items) :
                    sim'[<<in_pv.pytac_items[i], in_pv.pytac_field>>] = Num(p.value) ]_vars

\* A write of 1 to the bends' setpoint has been processed: both bend magnets
\* and the readback record hold 1
C11_Witness ==
    /\ Running /\ procq = <<>>
    /\ Len(objs[Lookup(BendReadName)].pytac_items) = 2
    /\ sim[<<2, "b0">>] = 1 /\ sim[<<3, "b0">>] = 1
    /\ recs[BendReadName] = Scalar(1)

\* C12: the record of the readback node paired with a setpoint changes only
\* in a step that runs the on_update of that setpoint; a run of update_pvs
\* and the callbacks of all other nodes leave it as it is.
C12_SoleWriterOfPairedReadback ==
    [][ \A id \in 1..Len(objs) :
          (/\ objs[id].in_pv # NoObj
           /\ objs[objs[id].in_pv].record \in DOMAIN recs
           /\ recs'[objs[objs[id].in_pv].record] # recs[objs[objs[id].in_pv].record]) =>
              (ProcessRecord /\ Head(procq).name = objs[id].name) ]_vars

\* update_pvs has just run while the quadrupole's field in the simulator
\* differed from the quadrupole's readback record, and the record was not
\* pulled
C12_Witness ==
    /\ hist.pulled
    /\ sim[Quad] # Num(recs[ReadName])
    /\ ReadName \notin readback_pvs

\* C13: after a run of update_pvs that raised nothing, the record of every
\* ReadbackPV holds the simulator's value of the node's field on its first
\* item.
C13_BatchPull ==
    hist.pulled =>
        \A name \in readback_pvs :
            LET pv == objs[pv_dict[name]]
            IN  recs[pv.record] = Scalar(sim[<<pv.pytac_items[1], pv.pytac_field>>])

\* update_pvs has pulled a new value of the BPM and of the lattice energy
C13_Witness ==
    /\ hist.pulled
    /\ readback_pvs = {"BPM:X", LatticePvName}
    /\ sim[<<4, "x">>] = 1 /\ recs["BPM:X"] = Scalar(1)
    /\ sim[<<LatticeItem, "energy">>] = 1 /\ recs[LatticePvName] = Scalar(1)

\* C14: a run of update_pvs while the simulator lacks the field of some
\* ReadbackPV ends with FieldException raised to the simulator, and leaves
\* that node's record as it was.
C14_MissingFieldOnPull ==
    [][ (\E vx \in Vals, ve \in Vals : Recalculate(vx, ve)) =>
          \A name \in readback_pvs :
              LET pv == objs[pv_dict[name]]
              IN  <<pv.pytac_items[1], pv.pytac_field>> \notin DOMAIN sim =>
                      /\ hist'.pull_error = "FieldException"
                      /\ recs'[pv.record] = recs[pv.record] ]_vars

\* The BPM lost its field after its record was pulled to 1, and the next
\* update_pvs raised and left the record at 1
C14_Witness ==
    /\ hist.pull_error = "FieldException"
    /\ <<4, "x">> \notin DOMAIN sim
    /\ recs["BPM:X"] = Scalar(1)

----------------------------------------------------------------------------
(* Properties of the mirror nodes (SpecMirror) *)

\* The value a source of a node has once the step is made
SourceAfter(src) == source_get([objs |-> objs', recs |-> recs', ext |-> ext'], src)
\* 0 for a number that is not zero, 1 for zero
Negated(x) == IF x # 0 THEN 0 ELSE 1

\* C15: when the callback of a MonitorPV made with the default callback runs
\* for a notification with value v, afterwards the node's record is exactly
\* v, whatever index the notification carries.
C15_BasicMirror ==
    [][ (Dispatch /\ Notified.cb = "set") =>
            recs'[NotifiedNode.record] = Notified.value ]_vars

\* The basic mirror of EXT:A holds the 1 that EXT:A was changed to
C15_Witness ==
    /\ Running /\ cbq = <<>>
    /\ Lookup("M:A") # NoObj
    /\ objs[Lookup("M:A")].kind = "MonitorPV"
    /\ ext["EXT:A"] = Scalar(1)
    /\ recs["M:A"] = Scalar(1)

\* C16: when the callback of a SummationPV runs, for a notification from any
\* of its sources, afterwards the node's record is the sum of the values its
\* sources have, whatever value and index the notification carries.
C16_Summate ==
    [][ (Dispatch /\ Notified.cb = "summate") =>
            recs'[NotifiedNode.record] =
                Scalar(SumSeq([i \in 1..Len(NotifiedNode.srcs) |->
                                  Num(SourceAfter(NotifiedNode.srcs[i]))])) ]_vars

\* Both sources of the summation node are 1 and its record is 2
C16_Witness ==
    /\ Running /\ cbq = <<>>
    /\ Lookup("M:S") # NoObj
    /\ recs[ReadName] = Scalar(1) /\ ext["EXT:A"] = Scalar(1)
    /\ recs["M:S"] = Scalar(2)

C18_InvertMultipleSources ==
    [][ (Dispatch /\ Notified.cb = "invert" /\ Len(NotifiedNode.srcs) > 1) =>
            recs'[NotifiedNode.record] =
                Array([i \in 1..Len(NotifiedNode.srcs) |->
                          Negated(Num(SourceAfter(NotifiedNode.srcs[i])))]) ]_vars

\* The inverse of the quadrupole's readback, which is 1, and of EXT:B, which
\* is 0, is [0,1]
C18_Witness ==
    /\ Running /\ cbq = <<>>
    /\ Lookup("M:N") # NoObj
    /\ recs[ReadName] = Scalar(1) /\ ext["EXT:B"] = Scalar(0)
    /\ recs["M:N"] = Array(<<0, 1>>)


----------------------------------------------------------------------------
(* Properties of the registry and of the monitoring switches (Spec) *)

RegistryIds == {pv_dict[n] : n \in DOMAIN pv_dict}

\* The objects a node refers to
Refs(id) ==
    ({objs[id].in_pv, objs[id].offset_record, objs[id].record_to_refresh}
        \union {objs[id].srcs[i].id : i \in 1..Len(objs[id].srcs)}) \ {NoObj}

\* The objects that can be reached from the registry
RECURSIVE ReachableFrom(_)
ReachableFrom(ids) ==
    LET more == ids \union UNION {Refs(id) : id \in ids}
    IN  IF more = ids THEN ids ELSE ReachableFrom(more)

Owners(ids, rec) == {id \in ids : objs[id].record = rec}

MonitoredNames(id) == {objs[id].monitor_data[i][1] : i \in 1..Len(objs[id].monitor_data)}
RegisteredMonitors == {id \in RegistryIds : objs[id].kind \in MonitorKinds}

\* C27, as stated: whatever calls of disable_monitoring and enable_monitoring
\* were made, a registered node that is monitoring has one open subscription
\* and one _monitor_data entry for each name it monitors.
C27_NoDuplicateSubscriptions ==
    (Running /\ hist.setup.id = NoObj) =>
        \A id \in RegisteredMonitors :
            objs[id].camonitor_handles # <<>> =>
                /\ Len(objs[id].camonitor_handles) = Cardinality(MonitoredNames(id))
                /\ Len(objs[id].monitor_data) = Cardinality(MonitoredNames(id))

\* C29, as stated: a registered node made with one callback for several
\* names has group subscriptions whenever it has any, also after monitoring
\* was disabled and enabled again: each open subscription gives the callback
\* the index of its name.
C29_ReenableKeepsGroupMode ==
    (Running /\ hist.setup.id = NoObj) =>
        \A id \in RegisteredMonitors :
            Len(objs[id].srcs) > 1 =>
                \A i \in 1..Len(objs[id].camonitor_handles) :
                    LET h == objs[id].camonitor_handles[i]
                    IN  /\ h.index # NoIndex
                        /\ h.pv = objs[id].srcs[h.index + 1].name

\* C30: disable_monitoring called while _pv_monitoring is false, and
\* enable_monitoring called while it is true, leave every object, the queue
\* of callbacks, the records and _pv_monitoring as they are; and in the
\* running server every registered MonitorPV has open subscriptions when
\* _pv_monitoring is true and none when it is false.
C30_ServerTogglesGuarded ==
    /\ [][ ((DisableMonitoring /\ ~pv_monitoring) \/ (EnableMonitoring /\ pv_monitoring)) =>
              /\ objs' = objs /\ cbq' = cbq /\ recs' = recs /\ procq' = procq
              /\ pv_monitoring' = pv_monitoring ]_vars
    /\ [](Running =>
            \A id \in RegisteredMonitors :
                pv_monitoring <=> objs[id].camonitor_handles # <<>>)

\* enable_monitoring was called twice on the server as built, which is
\* monitoring as the constructor left it
C30_Witness ==
    /\ Running /\ hist.toggles = 2 /\ hist.md0 = <<>> /\ pv_monitoring
    /\ RegisteredMonitors # {}
    /\ \A id \in RegisteredMonitors :
          Len(objs[id].camonitor_handles) = Len(objs[id].monitor_data)

----------------------------------------------------------------------------
(* Properties of setup_pv_monitoring and toggle_monitoring called on a     *)
(* node (SpecSetup)                                                        *)

\* The call of setup_pv_monitoring that the step makes
SetupCall == hist'.setup
IsSetupCall == hist.setup.id = NoObj /\ hist'.setup.id # NoObj
\* len(callbacks) after the default of pv.py:380-381
NumCallbacks(c) == IF c.callbacks = DefaultCallbacks THEN 1 ELSE Len(c.callbacks)

\* C22, as stated: a call of setup_pv_monitoring with one callback, or with as
\* many callbacks as names, raises nothing; a call with any other numbers
\* raises an error and establishes no subscription and no _monitor_data entry.
C22_CallbackArity ==
    [][ IsSetupCall =>
          IF NumCallbacks(SetupCall) \in {1, Len(SetupCall.pv_names)}
          THEN SetupCall.err = NoErr
          ELSE /\ SetupCall.err # NoErr
               /\ objs'[SetupCall.id].camonitor_handles = objs[SetupCall.id].camonitor_handles
               /\ objs'[SetupCall.id].monitor_data = objs[SetupCall.id].monitor_data
               /\ cbq' = cbq ]_vars


\* The numbers of _monitor_data entries and of open subscriptions that node
\* o has for a name
Entries(o, name) ==
    Cardinality({i \in 1..Len(o.monitor_data) : o.monitor_data[i][1] = name})
Handles(o, name) ==
    Cardinality({i \in 1..Len(o.camonitor_handles) : o.camonitor_handles[i].pv = name})

\* C28, as stated: a call of setup_pv_monitoring that raises nothing leaves
\* the node with as many _monitor_data entries and open subscriptions as
\* before for every name of the call that the node was monitoring already.
C28_AlreadyMonitoredSkipped ==
    [][ (IsSetupCall /\ SetupCall.err = NoErr) =>
          \A i \in 1..Len(SetupCall.pv_names) :
              LET name == SetupCall.pv_names[i]
              IN  name \in MonitoredNames(SetupCall.id) =>
                      /\ Entries(objs'[SetupCall.id], name) = Entries(objs[SetupCall.id], name)
                      /\ Handles(objs'[SetupCall.id], name) = Handles(objs[SetupCall.id], name) ]_vars

\* C33, as stated: a call of setup_pv_monitoring that raises leaves the
\* node's _monitor_data and its open subscriptions as they were.
C33_FailedSetupHasNoEffect ==
    [][ (IsSetupCall /\ SetupCall.err # NoErr) =>
          /\ objs'[SetupCall.id].monitor_data = objs[SetupCall.id].monitor_data
          /\ objs'[SetupCall.id].camonitor_handles = objs[SetupCall.id].camonitor_handles ]_vars

----------------------------------------------------------------------------
(* Properties of the builder on faulty configurations (SpecBuild) *)

\* C23, as stated: once the constructor has returned with tune feedback
\* enabled, every OffsetPV of the registry has an offset record attached, and
\* no reprocess of a setpoint has failed for want of one.
C23_EveryOffsetPVHasOffset ==
    (Running /\ ~cfg.disable_tunefb) =>
        /\ \A name \in DOMAIN pv_dict :
              objs[pv_dict[name]].kind = "OffsetPV" =>
                  objs[pv_dict[name]].offset_record # NoObj
        /\ hist.cb_error # "ValueError:No offset record"


\* What is wrong with the references of a tune row, given the registry the
\* builder has when it comes to the row
NoSetpoint(line) == line.set_pv \notin DOMAIN pv_dict
NotOffsetting(line) ==
    line.set_pv \in DOMAIN pv_dict /\ objs[pv_dict[line.set_pv]].kind # "OffsetPV"
NoOffset(line) == line.offset_pv \notin DOMAIN pv_dict

Malformed(value) ==
    \/ value = <<>>
    \/ ~(value[1] = "[" /\ value[Len(value)] = "]") /\ float(value).err # NoErr

\* C25, as stated: the builder never goes past a feedback or mirror row with
\* such a value; it stops there with the invalid-value error, and the row's
\* name is not in the registry.
C25_MalformedValue ==
    \A d \in DefiningRows :
        Malformed(RowOf(d[1], d[2]).value) =>
            /\ ~Processed(d[1], d[2])
            /\ FailedAt(d[1], d[2]) =>
                  /\ err = "ValueError:Invalid initial value"
                  /\ RowName(d[1], d[2]) \notin DOMAIN pv_dict


\* The record whose on_update softioc runs next, and the object that made it
Processing == Head(procq)
ProcessingNode == objs[Creator(Cur, Head(procq).name)]

\* C32, as stated: when the on_update of an OffsetPV that has no offset
\* record runs, it raises the error, and the simulator and the record of the
\* paired readback are as before.
C32_OffsetlessSetpointFailsCleanly ==
    [][ (ProcessRecord /\ ProcessingNode.kind = "OffsetPV"
            /\ ProcessingNode.offset_record = NoObj) =>
          /\ hist'.cb_error = "ValueError:No offset record"
          /\ sim' = sim
          /\ recs'[objs[ProcessingNode.in_pv].record] = recs[objs[ProcessingNode.in_pv].record] ]_vars

\* A mirror row with a number of inputs that its type does not take
BadCount(line) ==
    \/ Len(line.in_pv) > 1 /\ line.mirror_type = "basic"
    \/ Len(line.in_pv) < 2 /\ line.mirror_type \in {"collate", "summate"}

\* C34: when the builder comes to a basic mirror row with more than one
\* input, or to a collate or summate row with fewer than two, the constructor
\* stops with the IndexError; no object, record, registry entry, subscription
\* or task is made for the row, and the server is never handed out.  An
\* inverse row with one input or more, sound otherwise, is made and
\* registered with its inputs as sources.
C34_MirrorInputCounts ==
    /\ [][ MirrorRow =>
              LET line == cfg.mirror[row]
              IN  /\ BadCount(line) =>
                        /\ err' = "IndexError"
                        /\ objs' = objs /\ pv_dict' = pv_dict /\ recs' = recs
                        /\ cbq' = cbq /\ coll' = coll
                        /\ pc' = "mirror" /\ row' = row
                  /\ (line.mirror_type = "inverse" /\ WellFormed("mirror", row)
                        /\ line.out_pv \notin DOMAIN recs) =>
                        /\ err' = NoErr
                        /\ objs'[pv_dict'[line.out_pv]].kind = "InversionPV"
                        /\ Len(objs'[pv_dict'[line.out_pv]].srcs) = Len(line.in_pv)
                        /\ Len(objs'[pv_dict'[line.out_pv]].camonitor_handles) = Len(line.in_pv) ]_vars
    /\ [](\A r \in 1..Len(cfg.mirror) : BadCount(cfg.mirror[r]) => ~Processed("mirror", r))

\* The builder stopped at a summation row with one input, after it had made
\* the basic mirror of the row before
C34_Witness ==
    /\ FailedAt("mirror", 2) /\ err = "IndexError"
    /\ cfg.mirror[2].mirror_type = "summate" /\ Len(cfg.mirror[2].in_pv) = 1
    /\ cfg.mirror[2].out_pv \notin DOMAIN pv_dict
    /\ cfg.mirror[1].out_pv \in DOMAIN pv_dict
    /\ Len(cbq) = 1

\* C35, as stated: the builder stops at a mirror row whose type is none of
\* basic, inverse, summate and collate with the TypeError that names the
\* supported types, and the row's output name is not in the registry.
C35_UnsupportedMirrorType ==
    \A r \in 1..Len(cfg.mirror) :
        (cfg.mirror[r].mirror_type \notin {"basic", "inverse", "summate", "collate"}
            /\ ~BadCount(cfg.mirror[r])) =>
            /\ ~Processed("mirror", r)
            /\ FailedAt("mirror", r) =>
                  /\ err = "TypeError:mirror type"
                  /\ cfg.mirror[r].out_pv \notin DOMAIN pv_dict

----------------------------------------------------------------------------
(* Properties of the command line (SpecCli) *)

\* sub in text, for strings
Contains(text, sub) ==
    \E i \in 1..(Len(text) - Len(sub) + 1) : SubSeq(text, i, i + Len(sub) - 1) = sub

\* C26, as stated: run with --version, the program leaves the command line
\* only by exiting, with the version of the package in its output and
\* nothing of the graph built.
C26_CliVersion ==
    ("--version" \in cfg.argv /\ pc # "main") =>
        /\ pc = "exit"
        /\ Contains(hist.out, cfg.version)
        /\ objs = <<>> /\ pv_dict = <<>> /\ recs = <<>>

\* The setpoint names of the elements that have a field b1
B1SetNames ==
    { Lattice[i].sp : i \in { j \in 1..Len(Lattice) :
          Lattice[j].sp # NoName /\ \E f \in 1..Len(Lattice[j].fields) : Lattice[j].fields[f] = "b1" } }

\* C37: a server built with disable_tunefb, a tune csv supplied or not, has
\* no OffsetPV and no RefreshPV among its objects, and every b1 setpoint is
\* registered as a SetpointPV; when the record of such a setpoint processes a
\* written value, the simulator's b1 of its element and the readback record
\* become that value, and nothing is raised.
C37_TuneFeedbackDisabled ==
    /\ []((cfg.disable_tunefb /\ Running) =>
            /\ \A id \in 1..Len(objs) : objs[id].kind \notin {"OffsetPV", "RefreshPV"}
            /\ \A name \in B1SetNames :
                  name \in DOMAIN pv_dict /\ objs[pv_dict[name]].kind = "SetpointPV")
    /\ [][ (ProcessRecord /\ cfg.disable_tunefb /\ Processing.name = SetName) =>
              /\ sim'[Quad] = Num(Processing.value)
              /\ recs'[ReadName] = Processing.value
              /\ hist'.cb_error = hist.cb_error ]_vars

\* Built with --disable-tfb and a tune csv of one row, the server has pushed
\* a written 1 to the simulator
C37_Witness ==
    /\ cfg.disable_tunefb /\ Len(cfg.tune) = 1 /\ Running
    /\ hist.written = 1 /\ procq = <<>>
    /\ sim[Quad] = 1 /\ recs[ReadName] = Scalar(1)
    /\ objs[pv_dict[SetName]].kind = "SetpointPV"

----------------------------------------------------------------------------
(* Properties of the drain task with monitoring switched off and on        *)
(* (SpecDrain)                                                             *)

\* C31, as stated: from the return of disable_monitoring to the next
\* enable_monitoring no record of a monitoring node of the registry takes
\* a new value, and the drain task of a collation makes no store.
C31_QuiescentWhileDisabled ==
    [][ (~pv_monitoring /\ ~pv_monitoring') =>
          \A i \in 1..Len(MonitorIds(Cur)) :
              LET id == MonitorIds(Cur)[i]
              IN  /\ recs'[objs[id].record] = recs[objs[id].record]
                  /\ id \in DOMAIN coll => ~Stores(id) ]_vars

\* The objects that are collations
CollationIds == { id \in 1..Len(objs) : objs[id].kind = "CollationPV" }

\* C36: the nodes with a task running a polling loop are the collations,
\* each with the one task its constructor spawned; the task is there from
\* the construction of the node on, and switching monitoring off or on
\* leaves the tasks as they are.
C36_OneDrainTaskPerCollation ==
    /\ [](/\ DOMAIN coll = CollationIds
          /\ \A id \in DOMAIN coll : coll[id].tasks = 1)
    /\ [][ (DisableMonitoring \/ EnableMonitoring) => coll' = coll ]_vars

\* Monitoring was switched off and on again; the collation has its one
\* task, which has stored and sleeps in its loop
C36_Witness ==
    /\ Running /\ hist.cycled /\ pv_monitoring
    /\ CollationIds = {CollateId}
    /\ coll[CollateId].tasks = 1 /\ coll[CollateId].at = "sleep"
    /\ hist.nstores >= 1

====
